---- MODULE Spec2Model ----
(***************************************************************************)
(* Font inspector overlay: the interaction/state engine (panels, element   *)
(* highlighting, z-order, activation life cycle).                          *)
(*                                                                         *)
(* The repository holds three revisions of the engine, all modelled here   *)
(* over the same state:                                                    *)
(*   "state" - class FontDetectorUI with an immutable UIState snapshot     *)
(*             (src/src/modules/FontDetectorUI.tsx, lines 6-551);          *)
(*   "dom"   - class FontDetectorUI that keeps panels as DOM nodes         *)
(*             (src/src/modules/FontDetectorUI.ts, lines 12-642);          *)
(*   "hooks" - the React function component FontDetectorUI                 *)
(*             (src/src/modules/FontDetectorUI.tsx, lines 562-850).        *)
(* The variable variant fixes the revision a behaviour runs.               *)
(***************************************************************************)
EXTENDS Integers, Sequences, FiniteSets, TLC

VARIABLES
    variant,          \* which revision of the engine runs
    isActive,         \* state.isActive / this.isActive / useState isActive
    isAnalyzing,      \* EnhancedFontAnalyzer.isAnalyzing (hooks entry point)
    modals,           \* state.modals / activeModals: modal id -> ModalInfo
    trackedElements,  \* track id -> TrackedElement
    topZIndex,        \* the z-index counter
    tooltip,          \* the hover tooltip: visible, content
    debug,            \* debugConfig.showDebugPanel, debugPanel and its interval
    dismissTimers,    \* pending setTimeout(dismissInstructions) callbacks
    style,            \* element -> inline style (outline, backgroundColor)
    trackAttr,        \* element -> value of data-font-track-id (NoId: absent)
    modalAttr,        \* element -> value of data-modal-id (NoId: absent)
    isConnected,      \* element -> Node.isConnected
    nextModalId,      \* next unused modal identifier (Date.now() moves on)
    nextTrackId,      \* next unused track identifier
    zLog,             \* history: zIndex values assigned in this session
    owner,            \* history: track id -> modal whose toggle created it
    everTracked,      \* history: elements tracked at some point of the session
    preHighlight,     \* history: the element's style right before a highlight-on
    front,            \* history: the panel last brought to front (NoId: none)
    page,             \* the document the analyzer walks: node -> kind, font
    analyzer,         \* FontHierarchyAnalyzer: hierarchy, counters, primary font
    now,              \* performance.now()
    report,           \* what the last completed analyzeHeadless() returned
    threw,            \* the last analysis call ended with an exception
    extracted,        \* history: the last direct getElementFontMetrics result
    observer,         \* MutationObserver: records queued, last batch delivered
    highlightButton,  \* the highlight buttons' isProcessing guards and timers
    layout,           \* viewport, click event and the panel position open computed
    naming,           \* the font name given to standardizeFontName and what came back
    inlineZIndex,     \* element -> inline z-index of a page element (NoZIndex: none)
    lastOp            \* history: the operation that produced this state

analyzerVars == <<page, analyzer, now, report, threw, extracted, observer>>

vars == <<variant, isActive, isAnalyzing, modals, trackedElements, topZIndex,
          tooltip, debug, dismissTimers,
          style, trackAttr, modalAttr, isConnected, nextModalId, nextTrackId,
          zLog, owner, everTracked, preHighlight, front, page, analyzer,
          now, report, threw, extracted, observer, highlightButton, layout,
          naming, inlineZIndex, lastOp>>

----------------------------------------------------------------------------
(* Bounds of the model *)

MaxModals == 2
MaxTracks == 2
MaxZSteps == 3
MaxTimers == 2
MaxClock == 3

(* Program constants *)

baseZIndex == 10001

Variants == {"state", "dom", "hooks"}
NoId == 0
\* a value of data-font-track-id that the overlay did not mint
ForeignId == NoId - 1
\* element.style.zIndex of an element without inline z-index: parseInt
\* gives NaN
NoZIndex == NoId - 1
ModalIds == 1..MaxModals
TrackIds == 1..MaxTracks

----------------------------------------------------------------------------
(* The host page: two elements with text, e2 a child of e1. *)

Elements == {"e1", "e2"}

Parent(e) == IF e = "e2" THEN "e1" ELSE "none"

\* e and its ancestors, as Element.closest walks them
SelfAndAncestors(e) == IF Parent(e) = "none" THEN {e} ELSE {e, Parent(e)}

\* e and its descendants: removing e from the document removes them too
Subtree(e) == {x \in Elements : e \in SelfAndAncestors(x)}

\* inline styles the page author wrote, before the overlay touches anything
InitialStyle(e) ==
    IF e = "e1" THEN [outline |-> "1px solid red", backgroundColor |-> "yellow"]
                ELSE [outline |-> "", backgroundColor |-> ""]

\* the fixed highlight appearance written by the overlay
HighlightStyle ==
    [outline |-> "2px solid #2196F3", backgroundColor |-> "rgba(33, 150, 243, 0.1)"]

\* serialisation of a specified value as a computed (resolved) value
Resolve(v) ==
    CASE v = "1px solid red"     -> "rgb(255, 0, 0) solid 1px"
      [] v = "yellow"            -> "rgb(255, 255, 0)"
      [] v = "2px solid #2196F3" -> "rgb(33, 150, 243) solid 2px"
      [] OTHER                   -> v

\* computed value of a property no declaration sets
InitialValue(prop) ==
    IF prop = "outline" THEN "rgb(0, 0, 0) none 0px" ELSE "rgba(0, 0, 0, 0)"

\* window.getComputedStyle(element)[prop]: empty for an element that is not
\* connected, else the resolved inline declaration, else the initial value
ComputedValue(inline, connected, prop) ==
    IF ~connected THEN ""
    ELSE IF inline # "" THEN Resolve(inline)
    ELSE InitialValue(prop)

getComputedStyle(S, element) ==
    [outline         |-> ComputedValue(S.style[element].outline,
                                       isConnected[element], "outline"),
     backgroundColor |-> ComputedValue(S.style[element].backgroundColor,
                                       isConnected[element], "backgroundColor")]

----------------------------------------------------------------------------
(* Map helpers (JavaScript Map set / delete) *)

MapSet(f, k, v) == [x \in DOMAIN f \cup {k} |-> IF x = k THEN v ELSE f[x]]

MapDelete(f, k) == [x \in DOMAIN f \ {k} |-> f[x]]

EmptyMap == [x \in {} |-> 0]

Max(s) == CHOOSE x \in s : \A y \in s : y <= x

\* no page element has an inline z-index
NoInlineZIndex == [e \in Elements |-> NoZIndex]

\* the tracked-elements entries that refer to element e
EntriesOf(tracked, e) == {t \in DOMAIN tracked : tracked[t].element = e}

\* the engine state a handler reads and writes, as one record
Cur ==
    [isActive |-> isActive, modals |-> modals, trackedElements |-> trackedElements,
     topZIndex |-> topZIndex, style |-> style, trackAttr |-> trackAttr,
     modalAttr |-> modalAttr, highlightButton |-> highlightButton,
     inlineZIndex |-> inlineZIndex]

----------------------------------------------------------------------------
(* Revision "state": FontDetectorUI.tsx, class FontDetectorUI *)

\* modalInfo.isHighlighted = flag, when the modal is still in the map
SetModalHighlighted(ms, modalId, flag) ==
    IF modalId \in DOMAIN ms THEN [ms EXCEPT ![modalId].isHighlighted = flag]
    ELSE ms

\* handleHighlightElement that mints a new identifier on every call
\* instead of reading the element's attribute first
handleHighlightElement_AlwaysMint(S, element, modalId, isHighlighting, fresh) ==
    IF isHighlighting
    THEN [S EXCEPT
            !.trackAttr[element] = fresh,
            !.style[element] = HighlightStyle,
            !.trackedElements =
                MapSet(@, fresh, [element |-> element,
                                  originalStyles |-> getComputedStyle(S, element)]),
            !.modals = SetModalHighlighted(@, modalId, TRUE)]
    ELSE IF S.trackAttr[element] \in DOMAIN S.trackedElements
    THEN [S EXCEPT
            !.style[element] = S.trackedElements[S.trackAttr[element]].originalStyles,
            !.trackAttr[element] = NoId,
            !.trackedElements = MapDelete(@, S.trackAttr[element]),
            !.modals = SetModalHighlighted(@, modalId, FALSE)]
    ELSE S

\* handleHighlightElement that takes its snapshot after it has written the
\* highlight appearance
handleHighlightElement_SnapshotAfter(S, element, modalId, isHighlighting, fresh) ==
    LET trackId == IF S.trackAttr[element] # NoId THEN S.trackAttr[element]
                   ELSE fresh
    IN  IF isHighlighting
        THEN IF trackId \notin DOMAIN S.trackedElements
             THEN LET S1 == [S EXCEPT !.style[element] = HighlightStyle]
                      trackedElement == [element |-> element,
                                         originalStyles |-> getComputedStyle(S1, element)]
                  IN  [S1 EXCEPT
                         !.trackAttr[element] = trackId,
                         !.trackedElements = MapSet(@, trackId, trackedElement),
                         !.modals = SetModalHighlighted(@, modalId, TRUE)]
             ELSE S
        ELSE IF trackId \in DOMAIN S.trackedElements
             THEN [S EXCEPT
                     !.style[element] = S.trackedElements[trackId].originalStyles,
                     !.trackAttr[element] = NoId,
                     !.trackedElements = MapDelete(@, trackId),
                     !.modals = SetModalHighlighted(@, modalId, FALSE)]
             ELSE S

\* handleHighlightElement without the "not yet tracked" test of highlight-on
handleHighlightElement_NoGuard(S, element, modalId, isHighlighting, fresh) ==
    LET trackId == IF S.trackAttr[element] # NoId THEN S.trackAttr[element]
                   ELSE fresh
    IN  IF isHighlighting
        THEN [S EXCEPT
                !.trackAttr[element] = trackId,
                !.style[element] = HighlightStyle,
                !.trackedElements =
                    MapSet(@, trackId, [element |-> element,
                                        originalStyles |-> getComputedStyle(S, element)]),
                !.modals = SetModalHighlighted(@, modalId, TRUE)]
        ELSE IF trackId \in DOMAIN S.trackedElements
             THEN [S EXCEPT
                     !.style[element] = S.trackedElements[trackId].originalStyles,
                     !.trackAttr[element] = NoId,
                     !.trackedElements = MapDelete(@, trackId),
                     !.modals = SetModalHighlighted(@, modalId, FALSE)]
             ELSE S

\* handleHighlightElement whose highlight-off looks the entry up by the
\* element instead of by the element's attribute
handleHighlightElement_ByElement(S, element, modalId, isHighlighting, fresh) ==
    LET trackId == IF S.trackAttr[element] # NoId THEN S.trackAttr[element]
                   ELSE fresh
        ofElement == {t \in DOMAIN S.trackedElements :
                         S.trackedElements[t].element = element}
    IN  IF isHighlighting
        THEN IF trackId \notin DOMAIN S.trackedElements
             THEN LET computedStyle == getComputedStyle(S, element)
                      trackedElement == [element |-> element,
                                         originalStyles |-> computedStyle]
                  IN  [S EXCEPT
                         !.trackAttr[element] = trackId,
                         !.style[element] = HighlightStyle,
                         !.trackedElements = MapSet(@, trackId, trackedElement),
                         !.modals = SetModalHighlighted(@, modalId, TRUE)]
             ELSE S
        ELSE IF ofElement # {}
             THEN LET tracked == S.trackedElements[Max(ofElement)]
                  IN  [S EXCEPT
                         !.style[element] = tracked.originalStyles,
                         !.trackAttr[element] = NoId,
                         !.trackedElements = MapDelete(@, Max(ofElement)),
                         !.modals = SetModalHighlighted(@, modalId, FALSE)]
             ELSE S

\* handleHighlightElement(element, modalId, isHighlighting); fresh is the
\* identifier generateTrackId() returns
handleHighlightElement(S, element, modalId, isHighlighting, fresh) ==
    LET trackId == IF S.trackAttr[element] # NoId THEN S.trackAttr[element]
                   ELSE fresh
    IN  IF isHighlighting
        THEN IF trackId \notin DOMAIN S.trackedElements
             THEN LET computedStyle == getComputedStyle(S, element)
                      trackedElement == [element |-> element,
                                         originalStyles |-> computedStyle]
                  IN  [S EXCEPT
                         !.trackAttr[element] = trackId,
                         !.style[element] = HighlightStyle,
                         !.trackedElements = MapSet(@, trackId, trackedElement),
                         !.modals = SetModalHighlighted(@, modalId, TRUE)]
             ELSE S
        ELSE IF trackId \in DOMAIN S.trackedElements
             THEN LET tracked == S.trackedElements[trackId]
                  IN  [S EXCEPT
                         !.style[element] = tracked.originalStyles,
                         !.trackAttr[element] = NoId,
                         !.trackedElements = MapDelete(@, trackId),
                         !.modals = SetModalHighlighted(@, modalId, FALSE)]
             ELSE S

\* handleClick that gives the new panel the counter's value before the
\* increment
handleClick_FromCounter(S, target, modalId, metrics) ==
    IF ~S.isActive THEN S
    ELSE LET newModal == [targetElement |-> target,
                          isHighlighted |-> FALSE,
                          metrics |-> metrics,
                          zIndex |-> S.topZIndex]
         IN  [S EXCEPT !.modals = MapSet(@, modalId, newModal),
                       !.topZIndex = S.topZIndex + 1]

\* handleClick that opens the panel above the counter and leaves the counter
\* where it was
handleClick_NoAdvance(S, target, modalId, metrics) ==
    IF ~S.isActive THEN S
    ELSE LET newModal == [targetElement |-> target,
                          isHighlighted |-> FALSE,
                          metrics |-> metrics,
                          zIndex |-> S.topZIndex + 1]
         IN  [S EXCEPT !.modals = MapSet(@, modalId, newModal)]

\* handleClick on a page element outside the overlay's own UI; metrics is
\* what getElementFontMetrics(target) returned, stored without a null test
handleClick(S, target, modalId, metrics) ==
    IF ~S.isActive THEN S
    ELSE LET newModal == [targetElement |-> target,
                          isHighlighted |-> FALSE,
                          metrics |-> metrics,
                          zIndex |-> S.topZIndex + 1]
         IN  [S EXCEPT !.modals = MapSet(@, modalId, newModal),
                       !.topZIndex = S.topZIndex + 1]

\* handleCloseModal that empties the panel map
handleCloseModal_ClosesAll(S, modalId, fresh) ==
    [S EXCEPT !.modals = EmptyMap]

\* handleCloseModal that removes the panel without the highlight-off call
handleCloseModal_NoRestore(S, modalId, fresh) ==
    [S EXCEPT !.modals = MapDelete(@, modalId)]

\* handleCloseModal(modalId)
handleCloseModal(S, modalId, fresh) ==
    LET modalInfo == S.modals[modalId]
        S1 == IF modalId \in DOMAIN S.modals /\ modalInfo.isHighlighted
                 /\ S.trackAttr[modalInfo.targetElement] # NoId
              THEN handleHighlightElement(S, modalInfo.targetElement, modalId,
                                          FALSE, fresh)
              ELSE S
    IN  [S1 EXCEPT !.modals = MapDelete(@, modalId)]

\* handleBringModalToFront that advances the counter and leaves the panel
\* at its zIndex
handleBringModalToFront_CounterOnly(S, modalId) ==
    IF modalId \in DOMAIN S.modals
    THEN [S EXCEPT !.topZIndex = S.topZIndex + 1]
    ELSE S

\* handleBringModalToFront(modalId)
handleBringModalToFront(S, modalId) ==
    IF modalId \in DOMAIN S.modals
    THEN [S EXCEPT !.modals[modalId].zIndex = S.topZIndex + 1,
                   !.topZIndex = S.topZIndex + 1]
    ELSE S

\* the forEach of cleanup / cleanupAll: restore every tracked element that
\* is still connected, and take its track attribute away
RestoreConnected(S) ==
    LET hit(e) == {t \in DOMAIN S.trackedElements :
                      S.trackedElements[t].element = e /\ isConnected[e]}
        \* forEach visits the entries in insertion order; identifiers are
        \* minted in increasing order, so the last write is the largest id
        last(e) == S.trackedElements[Max(hit(e))]
    IN  [S EXCEPT
           !.style = [e \in Elements |->
                        IF hit(e) # {} THEN last(e).originalStyles ELSE @[e]],
           !.trackAttr = [e \in Elements |->
                        IF hit(e) # {} THEN NoId ELSE @[e]]]

\* cleanup()
cleanup(S) ==
    [RestoreConnected(S) EXCEPT !.trackedElements = EmptyMap,
                                !.modals = EmptyMap,
                                !.topZIndex = baseZIndex]

\* deactivate()
deactivate(S) == [cleanup(S) EXCEPT !.isActive = FALSE]

\* activate()
activate(S) == [S EXCEPT !.isActive = TRUE]

----------------------------------------------------------------------------
(* Revision "dom": FontDetectorUI.ts, class FontDetectorUI *)

\* highlightElement(element, isHighlighting)
Dom_highlightElement(S, element, isHighlighting) ==
    LET trackId == S.trackAttr[element]
    IN  IF trackId = NoId THEN S
        ELSE IF isHighlighting
        THEN IF trackId \notin DOMAIN S.trackedElements
             THEN LET computedStyle == getComputedStyle(S, element)
                      trackedElement == [element |-> element,
                                         originalStyles |-> computedStyle]
                  IN  [S EXCEPT
                         !.style[element] = HighlightStyle,
                         !.trackedElements = MapSet(@, trackId, trackedElement)]
             ELSE S
        ELSE IF trackId \in DOMAIN S.trackedElements
             THEN LET tracked == S.trackedElements[trackId]
                  IN  [S EXCEPT
                         !.style[element] = tracked.originalStyles,
                         !.trackedElements = MapDelete(@, trackId)]
             ELSE S

\* the try block of the click listener of the highlight button of
\* createHighlightButton
Dom_highlightButtonClick(S, modalId) ==
    LET element == S.modals[modalId].targetElement
        isHighlighted == ~S.modals[modalId].isHighlighted
        S1 == Dom_highlightElement(S, element, isHighlighted)
    IN  [S1 EXCEPT !.modals = SetModalHighlighted(@, modalId, isHighlighted)]

\* let isProcessing = false for every button; timers are the pending
\* setTimeout(resolve, 100) of the listeners, threw tells that the last
\* run of a listener ended with an exception
NoGuards == [isProcessing |-> {}, timers |-> {}, threw |-> FALSE]

\* the click listener whose wait and release sit at the end of the try
\* block instead of the finally block
Dom_highlightButtonListener_ReleaseInTry(S, modalId, throws) ==
    IF modalId \in S.highlightButton.isProcessing
    THEN [S EXCEPT !.highlightButton.threw = FALSE]
    ELSE [Dom_highlightButtonClick(S, modalId) EXCEPT
            !.highlightButton =
                [isProcessing |-> @.isProcessing \cup {modalId},
                 timers |-> IF throws THEN @.timers ELSE @.timers \cup {modalId},
                 threw |-> throws]]

\* the click listener of the highlight button up to its await: return when
\* isProcessing, else set it, run the try block and, in the finally block,
\* start the 100 ms timer; throws tells that the try block ends with an
\* exception in its last statement (updateDebugPanel)
Dom_highlightButtonListener(S, modalId, throws) ==
    IF modalId \in S.highlightButton.isProcessing
    THEN [S EXCEPT !.highlightButton.threw = FALSE]
    ELSE [Dom_highlightButtonClick(S, modalId) EXCEPT
            !.highlightButton = [isProcessing |-> @.isProcessing \cup {modalId},
                                 timers |-> @.timers \cup {modalId},
                                 threw |-> throws]]

\* the listener after its await: isProcessing = false
Dom_releaseGuard(S, modalId) ==
    [S EXCEPT !.highlightButton.isProcessing = @ \ {modalId},
              !.highlightButton.timers = @ \ {modalId}]

\* cleanupTrackedElement(trackId)
cleanupTrackedElement(S, trackId) ==
    IF trackId \in DOMAIN S.trackedElements
    THEN LET tracked == S.trackedElements[trackId]
             element == tracked.element
             S1 == IF isConnected[element]
                   THEN [S EXCEPT !.style[element] = tracked.originalStyles,
                                  !.trackAttr[element] = NoId,
                                  !.modalAttr[element] = NoId]
                   ELSE S
         IN  [S1 EXCEPT !.trackedElements = MapDelete(@, trackId)]
    ELSE S

\* cleanupModal(modalId)
cleanupModal(S, modalId) ==
    IF modalId \in DOMAIN S.modals
    THEN LET modalInfo == S.modals[modalId]
             targetElement == modalInfo.targetElement
             trackId == S.trackAttr[targetElement]
             S1 == IF modalInfo.isHighlighted /\ trackId # NoId
                   THEN cleanupTrackedElement(S, trackId)
                   ELSE S
         IN  [S1 EXCEPT !.modalAttr[targetElement] = NoId,
                        !.modals = MapDelete(@, modalId)]
    ELSE S

\* Math.max(baseZIndex, ...zIndex of every active modal)
HighestZIndex(S) ==
    Max({baseZIndex} \cup {S.modals[m].zIndex : m \in DOMAIN S.modals})

\* createModal(id): the z-index given to the new modal
createModal(S) == [S EXCEPT !.topZIndex = HighestZIndex(S) + 1]

\* createHighlightButton(element, modalId): tags the target element
createHighlightButton(S, element, modalId, fresh) ==
    [S EXCEPT !.trackAttr[element] = fresh, !.modalAttr[element] = modalId]

\* bringToFront(modal) on the modal's own node
bringToFront(S, modalId) ==
    LET highestZIndex == HighestZIndex(S)
    IN  IF S.modals[modalId].zIndex < highestZIndex
        THEN [S EXCEPT !.topZIndex = highestZIndex + 1,
                       !.modals[modalId].zIndex = highestZIndex + 1]
        ELSE S

\* bringToFront(clickedModal) where clickedModal is a page element that
\* createHighlightButton tagged with data-modal-id: without inline z-index
\* parseInt gives NaN and NaN < highestZIndex is false
Dom_bringElementToFront(S, element) ==
    LET highestZIndex == HighestZIndex(S)
    IN  IF S.inlineZIndex[element] # NoZIndex
           /\ S.inlineZIndex[element] < highestZIndex
        THEN [S EXCEPT !.topZIndex = highestZIndex + 1,
                       !.inlineZIndex[element] = highestZIndex + 1]
        ELSE S

\* target.closest('[data-modal-id]') for a page element
ClosestTagged(S, target) ==
    {x \in SelfAndAncestors(target) : S.modalAttr[x] # NoId}

\* handleClick on a page element
Dom_handleClick(S, target, modalId, fresh, metrics) ==
    IF ~S.isActive THEN S
    ELSE IF ClosestTagged(S, target) # {}
    THEN LET tagged == ClosestTagged(S, target)
             clickedModal == CHOOSE x \in tagged :
                                 \A y \in tagged : x \in Subtree(y)
         IN  Dom_bringElementToFront(S, clickedModal)
    ELSE LET S1 == createModal(S)
             S2 == createHighlightButton(S1, target, modalId, fresh)
             modalInfo == [targetElement |-> target,
                           isHighlighted |-> FALSE,
                           metrics |-> metrics,
                           zIndex |-> S1.topZIndex]
         IN  [S2 EXCEPT !.modals = MapSet(@, modalId, modalInfo)]

RECURSIVE Dom_cleanupModals(_, _)
\* activeModals.forEach(cleanupModal), in insertion order
Dom_cleanupModals(S, ids) ==
    IF ids = {} THEN S
    ELSE LET m == CHOOSE x \in ids : \A y \in ids : x <= y
         IN  Dom_cleanupModals(cleanupModal(S, m), ids \ {m})

RECURSIVE Dom_cleanupTracked(_, _)
\* trackedElements.forEach(cleanupTrackedElement), in insertion order
Dom_cleanupTracked(S, ids) ==
    IF ids = {} THEN S
    ELSE LET t == CHOOSE x \in ids : \A y \in ids : x <= y
         IN  Dom_cleanupTracked(cleanupTrackedElement(S, t), ids \ {t})

\* deactivate()
Dom_deactivate(S) ==
    LET S1 == Dom_cleanupModals(S, DOMAIN S.modals)
        S2 == [S1 EXCEPT !.modals = EmptyMap]
        S3 == Dom_cleanupTracked(S2, DOMAIN S2.trackedElements)
    IN  [S3 EXCEPT !.trackedElements = EmptyMap,
                   !.modals = EmptyMap,
                   !.topZIndex = baseZIndex,
                   !.isActive = FALSE]

\* activate()
Dom_activate(S) == [S EXCEPT !.isActive = TRUE]

----------------------------------------------------------------------------
(* Revision "hooks": FontDetectorUI.tsx, function component FontDetectorUI *)

\* generateTrackId(element): mints and writes the attribute when absent
generateTrackId(S, element, fresh) ==
    IF S.trackAttr[element] # NoId THEN S
    ELSE [S EXCEPT !.trackAttr[element] = fresh]

\* highlightElement(element, isHighlighting)
Hooks_highlightElement(S, element, isHighlighting, fresh) ==
    LET S0 == generateTrackId(S, element, fresh)
        trackId == S0.trackAttr[element]
    IN  IF isHighlighting
        THEN IF trackId \notin DOMAIN S0.trackedElements
             THEN LET computedStyle == getComputedStyle(S0, element)
                      trackedElement == [element |-> element,
                                         originalStyles |-> computedStyle]
                  IN  [S0 EXCEPT
                         !.style[element] = HighlightStyle,
                         !.trackedElements = MapSet(@, trackId, trackedElement)]
             ELSE S0
        ELSE IF trackId \in DOMAIN S0.trackedElements
             THEN LET tracked == S0.trackedElements[trackId]
                  IN  [S0 EXCEPT
                         !.style[element] = tracked.originalStyles,
                         !.trackedElements = MapDelete(@, trackId)]
             ELSE S0

\* bringToFront(modalId)
Hooks_bringToFront(S, modalId) ==
    IF modalId \in DOMAIN S.modals
    THEN LET highestZIndex == Max({S.modals[m].zIndex : m \in DOMAIN S.modals})
         IN  IF S.modals[modalId].zIndex < highestZIndex
             THEN [S EXCEPT !.topZIndex = highestZIndex + 1,
                            !.modals[modalId].zIndex = highestZIndex + 1]
             ELSE S
    ELSE S

\* toggleHighlight(modalId)
toggleHighlight(S, modalId, fresh) ==
    IF modalId \in DOMAIN S.modals
    THEN LET modalInfo == S.modals[modalId]
             newIsHighlighted == ~modalInfo.isHighlighted
             S1 == Hooks_highlightElement(S, modalInfo.targetElement,
                                          newIsHighlighted, fresh)
         IN  [S1 EXCEPT !.modals[modalId].isHighlighted = newIsHighlighted]
    ELSE S

\* a click on the highlight button: onHighlight, then the click bubbles to
\* the modal's onClick (Modal.handleModalClick -> onBringToFront)
Hooks_highlightButtonClick(S, modalId, fresh) ==
    Hooks_bringToFront(toggleHighlight(S, modalId, fresh), modalId)

\* Modal.handleClose, then the onClose passed by FontDetectorUI
Hooks_closeModal(S, modalId, fresh) ==
    LET modalInfo == S.modals[modalId]
        targetElement == modalInfo.targetElement
        S1 == IF modalInfo.isHighlighted
              THEN [S EXCEPT !.style[targetElement] =
                                getComputedStyle(S, targetElement)]
              ELSE S
        S2 == [S1 EXCEPT !.modals = MapDelete(@, modalId)]
    IN  Hooks_highlightElement(S2, targetElement, FALSE, fresh)

\* handleClick on a page element with text: a panel only if (metrics)
Hooks_handleClick(S, target, modalId, metrics) ==
    IF ~S.isActive THEN S
    ELSE IF metrics.name = "null" THEN S
    ELSE LET newModal == [targetElement |-> target,
                          isHighlighted |-> FALSE,
                          metrics |-> metrics,
                          zIndex |-> S.topZIndex + 1]
         IN  [S EXCEPT !.modals = MapSet(@, modalId, newModal),
                       !.topZIndex = S.topZIndex + 1]

\* cleanupHighlights(): no isConnected test in this revision
cleanupHighlights(S) ==
    LET hit(e) == {t \in DOMAIN S.trackedElements :
                      S.trackedElements[t].element = e}
        last(e) == S.trackedElements[Max(hit(e))]
    IN  [S EXCEPT
           !.style = [e \in Elements |->
                        IF hit(e) # {} THEN last(e).originalStyles ELSE @[e]],
           !.trackAttr = [e \in Elements |->
                        IF hit(e) # {} THEN NoId ELSE @[e]],
           !.trackedElements = EmptyMap]

\* deactivate(), the Cancel button
Hooks_deactivate(S) ==
    [cleanupHighlights(S) EXCEPT !.isActive = FALSE,
                                 !.modals = EmptyMap,
                                 !.trackedElements = EmptyMap]

\* FontDetectorManager.activate(): mounts a new component, isActive = true
Hooks_activate(S) == [S EXCEPT !.isActive = TRUE]

\* EnhancedFontAnalyzer.analyzeInteractive() in front of the hooks
\* component: returns at once when isAnalyzing is set
analyzeInteractive(S, analyzing) ==
    IF analyzing THEN S ELSE Hooks_activate(S)

----------------------------------------------------------------------------
(* Transitions *)

\* the tooltip of the initial state: hidden, no content
HiddenTooltip == [visible |-> FALSE, content |-> ""]

\* handleMouseMove(e), class revision with UIState: over the overlay's own
\* UI the tooltip is hidden and keeps its content; metrics is what
\* getElementFontMetrics(target) returned, and metrics.name on null throws
\* before setState is reached.  The coordinates are not looked at.
handleMouseMove(tt, target, inViewport, metrics) ==
    IF target = "overlay" THEN [tt EXCEPT !.visible = FALSE]
    ELSE IF metrics.name = "null" THEN tt
    ELSE [visible |-> TRUE, content |-> metrics.name]

\* handleMouseMove, DOM revision: display none over a panel or the exit
\* button, else textContent = metrics.name and display block.  The
\* coordinates only place the tooltip.
Dom_handleMouseMove(tt, target, inViewport, metrics) ==
    IF target = "overlay" THEN [tt EXCEPT !.visible = FALSE]
    ELSE [visible |-> TRUE, content |-> metrics.name]

\* handleMouseMove, hooks revision: setTooltipData with metrics null over
\* the Cancel button or a panel, at or beyond the viewport's edges, and for
\* a target without metrics
Hooks_handleMouseMove(tt, target, inViewport, metrics) ==
    IF target = "overlay" \/ ~inViewport THEN HiddenTooltip
    ELSE IF metrics.name = "null" THEN HiddenTooltip
    ELSE [visible |-> TRUE, content |-> metrics.name]

\* the tooltip part of cleanup(): visible false, content ""
cleanupTooltip(tt) == HiddenTooltip

\* the tooltip part of deactivate(), DOM revision: display none only
Dom_deactivateTooltip(tt) == [tt EXCEPT !.visible = FALSE]

\* the tooltip part of deactivate(), hooks revision: metrics null
Hooks_deactivateTooltip(tt) == HiddenTooltip

\* no debug panel yet: debugConfig.showDebugPanel false, debugPanel null
NoDebugPanel ==
    [showDebugPanel |-> FALSE, panel |-> FALSE, updateInterval |-> FALSE,
     intervals |-> 0]

\* DebugPanel.startAutoUpdate: a new interval, its handle overwrites
\* updateInterval
startAutoUpdate(d) ==
    [d EXCEPT !.intervals = @ + 1, !.updateInterval = TRUE]

\* DebugPanel.stopAutoUpdate: clears the interval whose handle it holds
stopAutoUpdate(d) ==
    IF d.updateInterval
    THEN [d EXCEPT !.intervals = @ - 1, !.updateInterval = FALSE]
    ELSE d

\* DebugPanel.hide
hide(d) == stopAutoUpdate(d)

\* setDebugConfig(config), with config.showDebugPanel = show
setDebugConfig(d, show) ==
    LET d1 == [d EXCEPT !.showDebugPanel = show]
    IN  IF show THEN startAutoUpdate([d1 EXCEPT !.panel = TRUE])
        ELSE IF d1.panel THEN hide(d1)
        ELSE d1

\* activate(), DOM revision: setTimeout(dismissInstructions, 3000)
Dom_activateTimers(n) == n + 1

----------------------------------------------------------------------------
(* Font hierarchy analyzer.  The class revision of the UI runs the analyzer *)
(* of modules/FontHierarchyAnalyzer.ts; the DOM revision runs the earlier   *)
(* class at the end of modules/FontDetectorUI.ts (operators Early_...).     *)

\* the document the analyzer walks: n1 is document.body, n2 and n3 are its
\* children in document order, n4 is the child of n2; every node has text
Nodes == {"n1", "n2", "n3", "n4"}

\* the elements the overlay itself puts under document.body while active:
\* the instruction tooltip of activate(), a panel of createModal() with the
\* markup of its innerHTML, the measuring element of
\* calculateTooltipPosition()
OwnNodes == {"instructionTooltip", "modal", "modalContent", "temp"}

Children(n) ==
    CASE n = "n1"    -> <<"n2", "n3">>
      [] n = "n2"    -> <<"n4">>
      [] n = "modal" -> <<"modalContent">>
      [] OTHER       -> <<>>

NodeParent(n) ==
    CASE n \in {"n2", "n3"}    -> "n1"
      [] n = "n4"              -> "n2"
      [] n = "modalContent"    -> "modal"
      [] OTHER                 -> "none"

\* what the analyzer meets at a node:
\*   "ok"              visible, metrics can be read
\*   "hidden"          isElementVisible is false (visibility, opacity, size)
\*   "throwsPredicate" window.getComputedStyle(element) throws
\*   "throwsMetrics"   reading style.fontFamily throws
Kinds == {"ok", "hidden", "throwsPredicate", "throwsMetrics"}

\* element.children of n in a document where the nodes of kind "absent" do
\* not exist
ChildrenIn(n) == SelectSeq(Children(n), LAMBDA c : page.kind[c] # "absent")

\* the document div > [h1, p]: n1 is the div, n2 the h1 computing to Arial,
\* n3 the p computing to Georgia; the div computes to one of three fonts
ScenarioPages ==
    {[kind |-> [n \in Nodes |-> IF n = "n4" THEN "absent" ELSE "ok"],
      font |-> [n \in Nodes |-> CASE n = "n1" -> f
                                  [] n = "n2" -> "Arial"
                                  [] n = "n3" -> "Georgia"
                                  [] OTHER    -> ""]] :
        f \in {"arial", "Georgia", "verdana"}}

\* the font-family a node computes to, as the style sheet spells it
FontChoices(n) ==
    CASE n = "n1" -> {"arial"}
      [] n = "n4" -> {"'Arial'", "Georgia"}
      [] OTHER    -> {"arial", "Georgia"}

\* the kinds tried at each node
KindChoices(n) ==
    CASE n = "n1" -> {"ok", "throwsPredicate"}
      [] n = "n2" -> Kinds
      [] n = "n3" -> {"ok", "hidden"}
      [] OTHER    -> {"ok", "throwsMetrics"}

Pages ==
    {pg \in [kind : [Nodes -> Kinds], font : [Nodes -> {"arial", "'Arial'", "Georgia"}]] :
        \A n \in Nodes : pg.kind[n] \in KindChoices(n) /\ pg.font[n] \in FontChoices(n)}

\* pages for the direct calls of the extractor: no element throws, n2 may be
\* invisible, n3 may compute to an empty font-family
ExtractorPages ==
    {pg \in [kind : [Nodes -> {"ok", "hidden"}],
             font : [Nodes -> {"arial", "'Arial'", "Georgia", ""}]] :
        /\ \A n \in Nodes \ {"n2"} : pg.kind[n] = "ok"
        /\ pg.font["n1"] = "arial"
        /\ pg.font["n2"] \in {"arial", "Georgia"}
        /\ pg.font["n3"] \in {"arial", ""}
        /\ pg.font["n4"] = "'Arial'"}

DefaultPage == [kind |-> [n \in Nodes |-> "ok"], font |-> [n \in Nodes |-> "arial"]]

\* primaryFont = null
NoFont == "null"

\* metrics.loadTime undefined
NoTime == -1

\* getElementFontMetrics returning null
NoMetrics == [name |-> "null", loadTime |-> NoTime]

\* passes counts the reports made so far
\* no direct call of getElementFontMetrics was made yet
NotExtracted == [element |-> "none", metrics |-> NoMetrics]

NoReport == [hierarchy |-> <<>>, fontUsageStats |-> <<>>, passes |-> 0]

\* a new FontHierarchyAnalyzer; firstAtMax and primaryOk are history: the
\* font that reached the highest count first, and whether primaryFont was
\* that font after every counter update since the last reset
EmptyAnalyzer ==
    [hierarchy |-> <<>>, fontUsageStats |-> <<>>, primaryFont |-> NoFont,
     metricsCache |-> EmptyMap, fontLoadTimes |-> EmptyMap,
     firstAtMax |-> NoFont, primaryOk |-> TRUE]

\* standardizeFontName: quotes removed, trimmed, words capitalised
standardizeFontName(fontName) ==
    IF fontName = "" THEN "System Default"
    ELSE CASE fontName \in {"arial", "'Arial'", "Arial"} -> "Arial"
           [] fontName \in {"georgia", "Georgia"}        -> "Georgia"
           [] fontName \in {"verdana", "Verdana"}        -> "Verdana"
           [] OTHER                                      -> fontName

\* standardizeFontName of the earlier class: quotes removed, first letters
\* made upper case
Early_standardizeFontName(fontName) ==
    CASE fontName = "" -> ""
      [] fontName \in {"arial", "'Arial'", "Arial"} -> "Arial"
      [] fontName \in {"georgia", "Georgia"}        -> "Georgia"
      [] fontName \in {"verdana", "Verdana"}        -> "Verdana"
      [] OTHER                                      -> fontName

\* Map.get(name) || 0 on the usage counters (a Map keeps insertion order)
CountOf(stats, name) ==
    LET hit == {i \in 1..Len(stats) : stats[i].name = name}
    IN  IF hit = {} THEN 0 ELSE stats[CHOOSE i \in hit : TRUE].count

\* Map.set(name, count): in place for a known key, appended for a new one
StatsSet(stats, name, count) ==
    IF \E i \in 1..Len(stats) : stats[i].name = name
    THEN [i \in 1..Len(stats) |->
            IF stats[i].name = name THEN [name |-> name, count |-> count]
            ELSE stats[i]]
    ELSE Append(stats, [name |-> name, count |-> count])

\* highest counter, 0 when nothing was counted
MaxCount(stats) == Max({0} \cup {stats[i].count : i \in 1..Len(stats)})

\* updateFontUsageStats with >= in place of > : a font that ties takes over
updateFontUsageStats_TieReplaces(S, fontName) ==
    IF fontName = "" THEN S
    ELSE LET standardizedName == standardizeFontName(fontName)
             currentCount == CountOf(S.fontUsageStats, standardizedName)
             stats == StatsSet(S.fontUsageStats, standardizedName, currentCount + 1)
             currentPrimaryCount ==
                 IF S.primaryFont # NoFont THEN CountOf(stats, S.primaryFont) ELSE 0
         IN  [S EXCEPT !.fontUsageStats = stats,
                       !.primaryFont = IF currentCount + 1 >= currentPrimaryCount
                                       THEN standardizedName ELSE @]

\* updateFontUsageStats(fontName)
updateFontUsageStats(S, fontName) ==
    IF fontName = "" THEN S
    ELSE LET standardizedName == standardizeFontName(fontName)
             currentCount == CountOf(S.fontUsageStats, standardizedName)
             stats == StatsSet(S.fontUsageStats, standardizedName, currentCount + 1)
             currentPrimaryCount ==
                 IF S.primaryFont # NoFont THEN CountOf(stats, S.primaryFont) ELSE 0
         IN  [S EXCEPT !.fontUsageStats = stats,
                       !.primaryFont = IF currentCount + 1 > currentPrimaryCount
                                       THEN standardizedName ELSE @]

\* updateFontUsageStats of the earlier class
Early_updateFontUsageStats(S, fontName) ==
    LET standardizedName == Early_standardizeFontName(fontName)
        currentCount == CountOf(S.fontUsageStats, standardizedName)
        stats == StatsSet(S.fontUsageStats, standardizedName, currentCount + 1)
        currentPrimaryCount ==
            IF S.primaryFont # NoFont THEN CountOf(stats, S.primaryFont) ELSE 0
    IN  [S EXCEPT !.fontUsageStats = stats,
                  !.primaryFont = IF currentCount + 1 > currentPrimaryCount
                                  THEN standardizedName ELSE @]

\* history kept next to a counter update from S0 to S1: who reached the
\* highest count first, and whether primaryFont is that font
Observed(S0, S1) ==
    LET grown == {i \in 1..Len(S1.fontUsageStats) :
                    S1.fontUsageStats[i].count > MaxCount(S0.fontUsageStats)}
        first == IF grown = {} THEN S0.firstAtMax
                 ELSE S1.fontUsageStats[CHOOSE i \in grown : TRUE].name
    IN  [S1 EXCEPT !.firstAtMax = first,
                   !.primaryOk = @ /\ S1.primaryFont = first]

\* getElementFontMetrics(element): the cached metrics, or null when reading
\* the style throws, or new metrics, cached
getElementFontMetrics(S, element) ==
    IF element \in DOMAIN S.metricsCache
    THEN [st |-> S, metrics |-> S.metricsCache[element]]
    ELSE IF page.kind[element] \in {"throwsPredicate", "throwsMetrics"}
    THEN [st |-> S, metrics |-> NoMetrics]
    ELSE IF page.font[element] = ""
    THEN [st |-> S, metrics |-> NoMetrics]
    ELSE LET name == standardizeFontName(page.font[element])
             metrics == [name |-> name,
                         loadTime |-> IF name \in DOMAIN S.fontLoadTimes
                                      THEN S.fontLoadTimes[name] ELSE NoTime]
         IN  [st |-> [S EXCEPT !.metricsCache = MapSet(@, element, metrics)],
              metrics |-> metrics]

\* getElementFontMetrics(element) of the earlier class: new metrics on every
\* call, no cache, no loadTime, no try block
Early_getElementFontMetrics(S, element) ==
    IF page.kind[element] \in {"throwsPredicate", "throwsMetrics"}
    THEN [st |-> S, metrics |-> NoMetrics, threw |-> TRUE]
    ELSE [st |-> S,
          metrics |-> [name |-> Early_standardizeFontName(page.font[element]),
                       loadTime |-> NoTime],
          threw |-> FALSE]

\* shouldAnalyzeElement(element), for a node whose style can be read
shouldAnalyzeElement(element) == page.kind[element] # "hidden"

RECURSIVE analyzeHierarchy(_, _, _)
RECURSIVE analyzeChildren(_, _, _)

\* the forEach over element.children: an exception leaves the loop
analyzeChildren(S, kids, current) ==
    IF kids = <<>> THEN [st |-> S, threw |-> FALSE]
    ELSE LET r == analyzeHierarchy(S, Head(kids), current)
         IN  IF r.threw THEN r ELSE analyzeChildren(r.st, Tail(kids), current)

\* analyzeHierarchy that pushes every node onto this.hierarchy, also when a
\* parent is given
analyzeHierarchy_AllRoots(S, element, parent) ==
    IF page.kind[element] = "throwsPredicate" THEN [st |-> S, threw |-> TRUE]
    ELSE IF ~shouldAnalyzeElement(element) THEN [st |-> S, threw |-> FALSE]
    ELSE LET g == getElementFontMetrics(S, element)
         IN  IF g.metrics = NoMetrics THEN [st |-> g.st, threw |-> FALSE]
             ELSE LET S1 == Observed(g.st, updateFontUsageStats(g.st, g.metrics.name))
                      S2 == IF g.metrics.name \in DOMAIN S1.fontLoadTimes THEN S1
                            ELSE [S1 EXCEPT !.fontLoadTimes =
                                               MapSet(@, g.metrics.name, now)]
                      S3 == [S2 EXCEPT !.hierarchy =
                               Append(@, [element |-> element, parent |-> 0,
                                          fontMetrics |-> g.metrics])]
                      r == analyzeChildren(S3, ChildrenIn(element), Len(S3.hierarchy))
                  IN  [st |-> r.st, threw |-> FALSE]

\* analyzeHierarchy(element, parent): parent is the index of the parent's
\* node in hierarchy, 0 for none; threw tells that the call ended with an
\* exception.  shouldAnalyzeElement runs before the try block.
analyzeHierarchy(S, element, parent) ==
    IF page.kind[element] = "throwsPredicate" THEN [st |-> S, threw |-> TRUE]
    ELSE IF ~shouldAnalyzeElement(element) THEN [st |-> S, threw |-> FALSE]
    ELSE LET g == getElementFontMetrics(S, element)
         IN  IF g.metrics = NoMetrics THEN [st |-> g.st, threw |-> FALSE]
             ELSE LET S1 == Observed(g.st, updateFontUsageStats(g.st, g.metrics.name))
                      S2 == IF g.metrics.name \in DOMAIN S1.fontLoadTimes THEN S1
                            ELSE [S1 EXCEPT !.fontLoadTimes =
                                               MapSet(@, g.metrics.name, now)]
                      S3 == [S2 EXCEPT !.hierarchy =
                               Append(@, [element |-> element, parent |-> parent,
                                          fontMetrics |-> g.metrics])]
                      r == analyzeChildren(S3, ChildrenIn(element), Len(S3.hierarchy))
                  IN  [st |-> r.st, threw |-> FALSE]

RECURSIVE Early_analyzeHierarchy(_, _, _)
RECURSIVE Early_analyzeChildren(_, _, _)

Early_analyzeChildren(S, kids, current) ==
    IF kids = <<>> THEN [st |-> S, threw |-> FALSE]
    ELSE LET r == Early_analyzeHierarchy(S, Head(kids), current)
         IN  IF r.threw THEN r ELSE Early_analyzeChildren(r.st, Tail(kids), current)

\* analyzeHierarchy of the earlier class: no visibility test, no try block
Early_analyzeHierarchy(S, element, parent) ==
    IF page.kind[element] \in {"throwsPredicate", "throwsMetrics"}
    THEN [st |-> S, threw |-> TRUE]
    ELSE LET metrics == [name |-> Early_standardizeFontName(page.font[element]),
                         loadTime |-> NoTime]
             S1 == Observed(S, Early_updateFontUsageStats(S, metrics.name))
             S3 == [S1 EXCEPT !.hierarchy =
                      Append(@, [element |-> element, parent |-> parent,
                                 fontMetrics |-> metrics])]
         IN  Early_analyzeChildren(S3, ChildrenIn(element), Len(S3.hierarchy))

\* the entries of stats from position i on that can still be placed
RECURSIVE SortByCount(_)
\* [...entries()].sort((a, b) => b[1] - a[1]): descending by count, stable
SortByCount(stats) ==
    IF stats = <<>> THEN <<>>
    ELSE LET top == MaxCount(stats)
             i == CHOOSE k \in 1..Len(stats) :
                     /\ stats[k].count = top
                     /\ \A l \in 1..(k - 1) : stats[l].count # top
         IN  <<stats[i]>> \o
             SortByCount(SubSeq(stats, 1, i - 1) \o SubSeq(stats, i + 1, Len(stats)))

\* getFontUsageStats(): a sorted copy
getFontUsageStats(S) == SortByCount(S.fontUsageStats)

\* getFontUsageStats() of the earlier class: the map itself
Early_getFontUsageStats(S) == S.fontUsageStats

\* getPrimaryFont()
getPrimaryFont(S) == IF S.primaryFont # NoFont THEN S.primaryFont ELSE "System Default"

\* reset() that keeps the usage counters
reset_KeepsCounters(S) ==
    [EmptyAnalyzer EXCEPT !.fontUsageStats = S.fontUsageStats,
                          !.primaryFont = S.primaryFont,
                          !.firstAtMax = S.firstAtMax]

\* reset()
reset(S) == EmptyAnalyzer

\* the page elements of the overlay model as nodes of the document: e2 is
\* the child of e1 as n4 is the child of n2
NodeOf(e) == IF e = "e1" THEN "n2" ELSE "n4"

\* FontInspector.getElementFontMetrics of the hooks revision: null when the
\* element has no resolvable font family, else metrics with the standardized
\* name
Hooks_getElementFontMetrics(S, element) ==
    IF page.kind[element] # "ok" \/ page.font[element] = ""
    THEN [st |-> S, metrics |-> NoMetrics, threw |-> FALSE]
    ELSE [st |-> S,
          metrics |-> [name |-> standardizeFontName(page.font[element]),
                       loadTime |-> NoTime],
          threw |-> FALSE]

\* what the extractor of the running revision returns to the hover and
\* click handlers for page element e
MetricsFor(e) ==
    IF e \notin Elements
    THEN [st |-> analyzer, metrics |-> NoMetrics, threw |-> FALSE]
    ELSE CASE variant = "state" ->
                [st |-> getElementFontMetrics(analyzer, NodeOf(e)).st,
                 metrics |-> getElementFontMetrics(analyzer, NodeOf(e)).metrics,
                 threw |-> FALSE]
           [] variant = "dom" -> Early_getElementFontMetrics(analyzer, NodeOf(e))
           [] variant = "hooks" -> Hooks_getElementFontMetrics(analyzer, NodeOf(e))

\* panel geometry of calculateInitialModalPosition and the offset shared
\* with the tooltip, in px
modalWidth == 300
modalHeight == 400
padding == 20
tooltipOffset == 10

----------------------------------------------------------------------------
(* Font names.  A font name is a sequence of characters; the model keeps   *)
(* the characters the standardisation tells apart: a run of letters (a     *)
(* stem in lower, UPPER or Title case), a blank, a tab, a quote and a      *)
(* character outside ASCII.  The operators below work on such sequences;   *)
(* standardizeFontName above is their table for the fonts of the pages.    *)

MaxNameLen == 3

Forms == {"lower", "upper", "title"}
Word(stem, form) == [kind |-> "word", stem |-> stem, form |-> form]
Blank == [kind |-> "space", stem |-> " ", form |-> "none"]
Tab == [kind |-> "space", stem |-> "tab", form |-> "none"]
Quote == [kind |-> "quote", stem |-> "'", form |-> "none"]
NonAscii == [kind |-> "nonascii", stem |-> "U+5B57", form |-> "none"]

Lower(stem) == Word(stem, "lower")
Upper(stem) == Word(stem, "upper")
Title(stem) == Word(stem, "title")

\* the words of a name, one blank between two of them
RECURSIVE Spaced(_)
Spaced(words) ==
    IF Len(words) <= 1 THEN words
    ELSE <<Head(words), Blank>> \o Spaced(Tail(words))

\* the patterns of the includes() tests that occur in a stem
PatternsIn(stem) ==
    CASE stem = "serif"      -> {"serif"}
      [] stem = "sans-serif" -> {"sans-serif", "sans", "serif"}
      [] stem = "monospace"  -> {"monospace", "mono"}
      [] stem = "sans"       -> {"sans"}
      [] stem = "monoton"    -> {"mono"}
      [] stem = "cursive"    -> {"cursive"}
      [] stem = "fantasy"    -> {"fantasy"}
      [] OTHER               -> {}

\* name.toLowerCase().includes(pattern)
includes(name, pattern) ==
    \E i \in 1..Len(name) :
        name[i].kind = "word" /\ pattern \in PatternsIn(name[i].stem)

NotQuote(c) == c.kind # "quote"
IsAscii(c) == c.kind # "nonascii"

\* String.trim
RECURSIVE trimStart(_)
trimStart(name) ==
    IF name # <<>> /\ Head(name).kind = "space" THEN trimStart(Tail(name))
    ELSE name

RECURSIVE trimEnd(_)
trimEnd(name) ==
    IF name # <<>> /\ name[Len(name)].kind = "space"
    THEN trimEnd(SubSeq(name, 1, Len(name) - 1))
    ELSE name

trim(name) == trimEnd(trimStart(name))

\* replace(/\s+/g, ' ')
RECURSIVE collapseSpaces(_)
collapseSpaces(name) ==
    IF name = <<>> THEN <<>>
    ELSE IF Head(name).kind = "space"
         THEN <<Blank>> \o collapseSpaces(trimStart(name))
         ELSE <<Head(name)>> \o collapseSpaces(Tail(name))

\* split(' ').map(word => word.charAt(0).toUpperCase()
\*                        + word.slice(1).toLowerCase()).join(' ')
RECURSIVE titleCase(_, _)
titleCase(name, atStart) ==
    IF name = <<>> THEN <<>>
    ELSE LET c == Head(name)
         IN  IF c = Blank THEN <<c>> \o titleCase(Tail(name), TRUE)
             ELSE <<IF c.kind = "word"
                    THEN Word(c.stem, IF atStart THEN "title" ELSE "lower")
                    ELSE c>> \o titleCase(Tail(name), FALSE)

\* split(" ").map(word => word.charAt(0).toUpperCase() + word.slice(1))
\*           .join(" ")
RECURSIVE capitalize(_, _)
capitalize(name, atStart) ==
    IF name = <<>> THEN <<>>
    ELSE LET c == Head(name)
         IN  IF c = Blank THEN <<c>> \o capitalize(Tail(name), TRUE)
             ELSE <<IF c.kind = "word" /\ atStart /\ c.form = "lower"
                    THEN Title(c.stem)
                    ELSE c>> \o capitalize(Tail(name), FALSE)

SystemDefault == Spaced(<<Title("system"), Title("default")>>)

\* FontHierarchyAnalyzer.standardizeFontName on a name of characters
standardizeName(fontName) ==
    IF fontName = <<>> THEN SystemDefault
    ELSE LET cleanName ==
                 collapseSpaces(trim(SelectSeq(SelectSeq(fontName, NotQuote),
                                               IsAscii)))
         IN  IF includes(cleanName, "monospace") THEN <<Title("monospace")>>
             ELSE IF includes(cleanName, "sans-serif")
                  THEN <<Title("sans-serif")>>
             ELSE IF includes(cleanName, "serif") THEN <<Title("serif")>>
             ELSE LET titled == titleCase(cleanName, TRUE)
                  IN  IF titled = <<>> THEN SystemDefault ELSE titled

\* standardizeFontName of the FontDetectorUI classes on a name of characters
Early_standardizeName(fontName) ==
    LET cleanName == collapseSpaces(trim(SelectSeq(fontName, NotQuote)))
    IN  capitalize(cleanName, TRUE)

\* FontHierarchyAnalyzer.systemFonts
systemFonts ==
    {<<Title("arial")>>, <<Title("helvetica")>>,
     Spaced(<<Title("times"), Title("new"), Title("roman")>>),
     <<Title("times")>>,
     Spaced(<<Title("courier"), Title("new")>>), <<Title("courier")>>,
     <<Title("verdana")>>, <<Title("georgia")>>, <<Title("palatino")>>,
     <<Title("garamond")>>, <<Title("bookman")>>,
     Spaced(<<Title("comic"), Title("sans"), Upper("ms")>>),
     Spaced(<<Title("trebuchet"), Upper("ms")>>),
     <<Title("impact")>>, <<Title("sans-serif")>>, <<Title("serif")>>}

\* FontHierarchyAnalyzer.getFontCategory
getFontCategory(fontName) ==
    LET standardizedName == standardizeName(fontName)
    IN  IF includes(standardizedName, "serif") THEN "serif"
        ELSE IF includes(standardizedName, "sans") THEN "sans-serif"
        ELSE IF includes(standardizedName, "mono") THEN "monospace"
        ELSE IF includes(standardizedName, "cursive") THEN "cursive"
        ELSE IF includes(standardizedName, "fantasy") THEN "fantasy"
        ELSE IF standardizedName \in systemFonts THEN "system"
        ELSE "custom"

NoName ==
    [fontName |-> <<>>, standardized |-> FALSE, result |-> <<>>,
     again |-> <<>>, category |-> "none"]

\* the generic families of CSS, as a style sheet writes them
GenericFamilies ==
    {<<Lower("serif")>>, <<Lower("sans-serif")>>, <<Lower("monospace")>>,
     <<Lower("cursive")>>, <<Lower("fantasy")>>}

\* every sequence of at most MaxNameLen characters over a small alphabet
NameCharacters ==
    {Blank, Tab, Quote, NonAscii}
        \cup {Word(stem, form) : stem \in {"arial", "serif"}, form \in Forms}

ShortNames ==
    UNION {[1..n -> NameCharacters] : n \in 0..MaxNameLen}

\* names of style sheets: the system fonts, the generic families, and
\* names in capitals, in quotes, with wide gaps and with a generic word
FontNames ==
    ShortNames \cup systemFonts \cup GenericFamilies
        \cup {Spaced(<<Upper("times"), Upper("new"), Upper("roman")>>),
              <<Quote>> \o Spaced(<<Title("times"), Title("new"),
                                    Title("roman")>>) \o <<Quote>>,
              <<Lower("times"), Blank, Blank, Lower("new"), Tab,
                Lower("roman")>>,
              Spaced(<<Title("noto"), Title("serif")>>),
              Spaced(<<Title("noto"), Title("sans")>>),
              Spaced(<<Title("open"), Title("sans")>>),
              <<Title("monoton")>>, <<Title("roboto")>>,
              <<Upper("sans-serif")>>, <<Title("monospace")>>}

----------------------------------------------------------------------------

\* no click looked at: the position of a panel is not followed
NoLayout ==
    [viewportWidth |-> 0, viewportHeight |-> 0, scrollX |-> 0, scrollY |-> 0,
     clientX |-> 0, clientY |-> 0, opened |-> FALSE,
     position |-> [x |-> 0, y |-> 0, flippedX |-> FALSE, flippedY |-> FALSE],
     shown |-> [x |-> 0, y |-> 0, flippedX |-> FALSE, flippedY |-> FALSE]]

\* calculateInitialModalPosition(e) for the viewport and click of L; the
\* final boundary checks all read the position from before them
calculateInitialModalPosition(L) ==
    LET pageX == L.clientX + L.scrollX
        pageY == L.clientY + L.scrollY
        x0 == pageX + tooltipOffset
        y0 == pageY + tooltipOffset
        viewportX == x0 - L.scrollX
        viewportY == y0 - L.scrollY
        spaceRight == L.viewportWidth - (pageX - L.scrollX)
        spaceLeft == pageX - L.scrollX
        spaceBottom == L.viewportHeight - (pageY - L.scrollY)
        spaceTop == pageY - L.scrollY
        flipX == viewportX + modalWidth > L.viewportWidth - padding
                    /\ spaceLeft > spaceRight
        flipY == viewportY + modalHeight > L.viewportHeight - padding
                    /\ spaceTop > spaceBottom
        x1 == IF flipX THEN pageX - modalWidth - tooltipOffset ELSE x0
        y1 == IF flipY THEN pageY - modalHeight - tooltipOffset ELSE y0
        finalViewportX == x1 - L.scrollX
        finalViewportY == y1 - L.scrollY
        x2 == IF finalViewportX + modalWidth > L.viewportWidth - padding
              THEN L.scrollX + L.viewportWidth - modalWidth - padding ELSE x1
        x3 == IF finalViewportX < padding THEN L.scrollX + padding ELSE x2
        y2 == IF finalViewportY + modalHeight > L.viewportHeight - padding
              THEN L.scrollY + L.viewportHeight - modalHeight - padding ELSE y1
        y3 == IF finalViewportY < padding THEN L.scrollY + padding ELSE y2
    IN  [x |-> x3, y |-> y3, flippedX |-> flipX, flippedY |-> flipY]

\* calculatePosition of useModalPosition for a rendered panel of
\* modalWidth x modalHeight: initialPosition and clickPosition come from
\* the panel record; viewportX is updated after a flip, not after a clamp
useModalPosition(L, initialPosition) ==
    LET clickX == L.clientX + L.scrollX
        clickY == L.clientY + L.scrollY
        vx0 == initialPosition.x - L.scrollX
        vy0 == initialPosition.y - L.scrollY
        spaceRight == L.viewportWidth - L.clientX
        spaceLeft == L.clientX
        spaceBottom == L.viewportHeight - L.clientY
        spaceTop == L.clientY
        toLeft == vx0 + modalWidth > L.viewportWidth - padding /\ spaceLeft > spaceRight
        toRight == ~toLeft /\ vx0 < padding /\ spaceRight > spaceLeft
        toTop == vy0 + modalHeight > L.viewportHeight - padding /\ spaceTop > spaceBottom
        toBottom == ~toTop /\ vy0 < padding /\ spaceBottom > spaceTop
        x1 == IF toLeft THEN clickX - modalWidth - padding
              ELSE IF toRight THEN clickX + padding ELSE initialPosition.x
        y1 == IF toTop THEN clickY - modalHeight - padding
              ELSE IF toBottom THEN clickY + padding ELSE initialPosition.y
        viewportX == x1 - L.scrollX
        viewportY == y1 - L.scrollY
        x2 == IF viewportX + modalWidth > L.viewportWidth - padding
              THEN L.scrollX + L.viewportWidth - modalWidth - padding ELSE x1
        x3 == IF viewportX < padding THEN L.scrollX + padding ELSE x2
        y2 == IF viewportY + modalHeight > L.viewportHeight - padding
              THEN L.scrollY + L.viewportHeight - modalHeight - padding ELSE y1
        y3 == IF viewportY < padding THEN L.scrollY + padding ELSE y2
    IN  [x |-> x3, y |-> y3,
         flippedX |-> initialPosition.flippedX \/ toLeft,
         flippedY |-> initialPosition.flippedY \/ toTop]

\* the positioning at the end of handleClick of the DOM revision, for a
\* panel measured modalWidth x modalHeight: a flip on overflow, no clamp
Dom_modalPosition(L) ==
    LET pageX == L.clientX + L.scrollX
        pageY == L.clientY + L.scrollY
        x0 == pageX + tooltipOffset
        y0 == pageY + tooltipOffset
        flipX == x0 + modalWidth > L.viewportWidth + L.scrollX
        flipY == y0 + modalHeight > L.viewportHeight + L.scrollY
    IN  [x |-> IF flipX THEN x0 - modalWidth - (tooltipOffset * 2) ELSE x0,
         y |-> IF flipY THEN y0 - modalHeight - (tooltipOffset * 2) ELSE y0,
         flippedX |-> flipX, flippedY |-> flipY]

\* a new MutationObserver: nothing queued; delivered is history, the
\* length of the last batch delivered and the nodes it listed as added
NoRecords == [queue |-> <<>>, delivered |-> [records |-> 0, added |-> {}]]

\* observer.disconnect(): the queued records are dropped
disconnect(o) == [o EXCEPT !.queue = <<>>]

\* a MutationRecord
MutationRecord(type, target, addedNodes, removedNodes) ==
    [type |-> type, target |-> target,
     addedNodes |-> addedNodes, removedNodes |-> removedNodes]

NoPreHighlight ==
    [element |-> "none", computed |-> [outline |-> "", backgroundColor |-> ""],
     wasTracked |-> FALSE]

\* what a test of the highlight operations records before calling highlight-on
PreHighlightOf(op) ==
    IF op.op = "highlightOn"
    THEN [element |-> op.element,
          computed |-> getComputedStyle(Cur, op.element),
          wasTracked |-> EntriesOf(trackedElements, op.element) # {}]
    ELSE NoPreHighlight

Op(name, modalId, element) ==
    [op |-> name, modal |-> modalId, element |-> element, inViewport |-> TRUE]

\* the z-index values a handler assigned, read off its result
AssignedZ(S2, op) ==
    IF op.op \in {"open", "bringToFront"} /\ op.modal \in DOMAIN S2.modals
       /\ (op.modal \notin DOMAIN modals
           \/ modals[op.modal].zIndex # S2.modals[op.modal].zIndex)
    THEN <<S2.modals[op.modal].zIndex>>
    ELSE <<>>

\* the panel last brought to front: it stays so until another panel is
\* opened or gets a new zIndex, or until it is removed
FrontAfter(S2, op) ==
    IF op.op = "bringToFront" /\ op.modal \in DOMAIN S2.modals
    THEN op.modal
    ELSE IF \/ front \notin DOMAIN S2.modals
            \/ \E m \in DOMAIN S2.modals \ {front} :
                  \/ m \notin DOMAIN modals
                  \/ modals[m].zIndex # S2.modals[m].zIndex
         THEN NoId
         ELSE front

\* the model's bounds: identifiers and z-index values stay in their ranges
WithinBounds(S2) ==
    /\ DOMAIN S2.modals \subseteq ModalIds
    /\ DOMAIN S2.trackedElements \subseteq TrackIds
    /\ \A e \in Elements : S2.trackAttr[e] \in TrackIds \cup {NoId, ForeignId}
    /\ S2.topZIndex <= baseZIndex + MaxZSteps

\* a handler ran to completion and left the engine in state S2
Committed(S2, op, newPage, newObserver) ==
    /\ WithinBounds(S2)
    /\ isActive' = S2.isActive
    /\ modals' = S2.modals
    /\ trackedElements' = S2.trackedElements
    /\ topZIndex' = S2.topZIndex
    /\ tooltip' = IF op.op = "deactivate"
                  THEN (CASE variant = "state" -> cleanupTooltip(tooltip)
                          [] variant = "dom"   -> Dom_deactivateTooltip(tooltip)
                          [] variant = "hooks" -> Hooks_deactivateTooltip(tooltip))
                  ELSE tooltip
    /\ style' = S2.style
    /\ trackAttr' = S2.trackAttr
    /\ modalAttr' = S2.modalAttr
    /\ nextModalId' = IF nextModalId \in DOMAIN S2.modals THEN nextModalId + 1
                      ELSE nextModalId
    /\ nextTrackId' = IF \/ nextTrackId \in DOMAIN S2.trackedElements
                         \/ \E e \in Elements : S2.trackAttr[e] = nextTrackId
                      THEN nextTrackId + 1 ELSE nextTrackId
    /\ zLog' = IF op.op = "deactivate" THEN <<>> ELSE zLog \o AssignedZ(S2, op)
    /\ owner' = [t \in DOMAIN S2.trackedElements |->
                   IF t \in DOMAIN trackedElements THEN owner[t] ELSE op.modal]
    /\ everTracked' =
         (IF op.op = "activate" THEN {} ELSE everTracked)
         \cup {S2.trackedElements[t].element : t \in DOMAIN S2.trackedElements}
    /\ preHighlight' = PreHighlightOf(op)
    /\ front' = FrontAfter(S2, op)
    /\ lastOp' = op
    /\ isAnalyzing' = (isAnalyzing \/ (variant = "hooks" /\ op.op = "activate"))
    /\ dismissTimers' = IF variant = "dom" /\ op.op = "activate"
                        THEN Dom_activateTimers(dismissTimers)
                        ELSE dismissTimers
    /\ analyzer' = IF op.op = "activate" /\ variant # "hooks"
                   THEN reset(analyzer)
                   ELSE IF op.op = "open" THEN MetricsFor(op.element).st
                   ELSE analyzer
    /\ highlightButton' = S2.highlightButton
    /\ inlineZIndex' = S2.inlineZIndex
    /\ observer' = newObserver
    /\ page' = newPage
    /\ UNCHANGED <<variant, isConnected, debug, now, report, threw,
                   extracted, layout, naming>>

\* a handler that inserts nothing under document.body: activate and
\* deactivate disconnect the observer, which drops the queued records
Commit(S2, op) ==
    Committed(S2, op, page,
              IF op.op \in {"activate", "deactivate"}
              THEN disconnect(observer) ELSE observer)

InitUI ==
    /\ isActive = FALSE
    /\ isAnalyzing = FALSE
    /\ modals = EmptyMap
    /\ trackedElements = EmptyMap
    /\ topZIndex = baseZIndex
    /\ tooltip = HiddenTooltip
    /\ debug = NoDebugPanel
    /\ dismissTimers = 0
    /\ style = [e \in Elements |-> InitialStyle(e)]
    /\ trackAttr = [e \in Elements |-> NoId]
    /\ modalAttr = [e \in Elements |-> NoId]
    /\ isConnected = [e \in Elements |-> TRUE]
    /\ nextModalId = 1
    /\ nextTrackId = 1
    /\ zLog = <<>>
    /\ owner = EmptyMap
    /\ everTracked = {}
    /\ preHighlight = NoPreHighlight
    /\ front = NoId
    /\ lastOp = Op("init", NoId, "none")
    /\ analyzer = EmptyAnalyzer
    /\ now = 0
    /\ report = NoReport
    /\ threw = FALSE
    /\ extracted = NotExtracted
    /\ observer = NoRecords
    /\ highlightButton = NoGuards

Init ==
    /\ variant \in Variants
    /\ InitUI
    /\ layout = NoLayout
    /\ naming = NoName
    /\ inlineZIndex = NoInlineZIndex
    /\ page = DefaultPage

\* the page removes element e (and its subtree) from the document
Disconnect(e) ==
    /\ isConnected[e]
    /\ isConnected' = [x \in Elements |-> isConnected[x] /\ x \notin Subtree(e)]
    /\ lastOp' = Op("disconnect", NoId, e)
    /\ preHighlight' = NoPreHighlight
    /\ UNCHANGED <<variant, isActive, isAnalyzing, highlightButton, layout, naming,
                   inlineZIndex,
                   modals,
                   trackedElements,
                   topZIndex, tooltip, debug, dismissTimers, style, trackAttr, modalAttr, nextModalId,
                   nextTrackId, zLog, owner, everTracked, front>>
    /\ UNCHANGED analyzerVars

\* the activation entry point: analyzeInteractive()
Activate ==
    /\ ~isActive
    /\ variant = "dom" => dismissTimers < MaxTimers
    /\ Commit(CASE variant = "state" -> activate(Cur)
                [] variant = "dom"   -> Dom_activate(Cur)
                [] variant = "hooks" -> analyzeInteractive(Cur, isAnalyzing),
              Op("activate", NoId, "none"))

\* deactivate(): public in the class revisions, where the exit control
\* calls it too; in the hooks revision only the Cancel button, rendered
\* while active, reaches it
Deactivate ==
    /\ variant = "hooks" => isActive
    /\ Commit(CASE variant = "state" -> deactivate(Cur)
                [] variant = "dom"   -> Dom_deactivate(Cur)
                [] variant = "hooks" -> Hooks_deactivate(Cur),
              Op("deactivate", NoId, "none"))

\* a click on page element target reaches the document's click listener
Click(target) ==
    /\ isActive
    /\ isConnected[target]
    /\ Commit(CASE variant = "state" ->
                     handleClick(Cur, target, nextModalId, MetricsFor(target).metrics)
                [] variant = "dom"   ->
                     Dom_handleClick(Cur, target, nextModalId, nextTrackId,
                                     MetricsFor(target).metrics)
                [] variant = "hooks" ->
                     Hooks_handleClick(Cur, target, nextModalId,
                                       MetricsFor(target).metrics),
              Op("open", nextModalId, target))

\* a click on the highlight button of panel m
ToggleHighlight(m) ==
    /\ m \in DOMAIN modals
    /\ Commit(CASE variant = "state" ->
                     handleHighlightElement(Cur, modals[m].targetElement, m,
                                            ~modals[m].isHighlighted, nextTrackId)
                [] variant = "dom"   -> Dom_highlightButtonClick(Cur, m)
                [] variant = "hooks" -> Hooks_highlightButtonClick(Cur, m, nextTrackId),
              Op(IF modals[m].isHighlighted THEN "highlightOff" ELSE "highlightOn",
                 m, modals[m].targetElement))

\* a click on the highlight button of panel m of the DOM revision: the
\* listener runs up to its await
HighlightButtonClick(m, throws) ==
    /\ variant = "dom"
    /\ m \in DOMAIN modals
    /\ Commit(Dom_highlightButtonListener(Cur, m, throws),
              Op(IF m \in highlightButton.isProcessing THEN "toggleIgnored"
                 ELSE IF modals[m].isHighlighted THEN "highlightOff"
                 ELSE "highlightOn",
                 m, modals[m].targetElement))

\* the 100 ms timer of the listener of button m fires
GuardTimerFires(m) ==
    /\ m \in highlightButton.timers
    /\ Commit(Dom_releaseGuard(Cur, m), Op("release", m, "none"))

\* a click on the close control of panel m
CloseModal(m) ==
    /\ m \in DOMAIN modals
    /\ Commit(CASE variant = "state" -> handleCloseModal(Cur, m, nextTrackId)
                [] variant = "dom"   -> cleanupModal(Cur, m)
                [] variant = "hooks" -> Hooks_closeModal(Cur, m, nextTrackId),
              Op("close", m, modals[m].targetElement))

\* mouse down / click inside panel m, away from its buttons
BringModalToFront(m) ==
    /\ m \in DOMAIN modals
    /\ Commit(CASE variant = "state" -> handleBringModalToFront(Cur, m)
                [] variant = "dom"   -> bringToFront(Cur, m)
                [] variant = "hooks" -> Hooks_bringToFront(Cur, m),
              Op("bringToFront", m, modals[m].targetElement))

\* the pointer moves over a page element, or over the overlay's own UI
Hovered(target, inViewport, newPage, newObserver) ==
    /\ isActive
    /\ target \in Elements => isConnected[target]
    /\ LET r == MetricsFor(target)
       IN  /\ tooltip' =
                (CASE variant = "state" ->
                        handleMouseMove(tooltip, target, inViewport, r.metrics)
                   [] variant = "dom"   ->
                        Dom_handleMouseMove(tooltip, target, inViewport, r.metrics)
                   [] variant = "hooks" ->
                        Hooks_handleMouseMove(tooltip, target, inViewport, r.metrics))
           /\ analyzer' = IF target = "overlay" \/ (variant = "hooks" /\ ~inViewport)
                          THEN analyzer ELSE r.st
           /\ threw' = (/\ variant = "state"
                        /\ target \in Elements
                        /\ r.metrics = NoMetrics)
    /\ lastOp' = [op |-> "mousemove", modal |-> NoId, element |-> target,
                  inViewport |-> inViewport]
    /\ preHighlight' = NoPreHighlight
    /\ UNCHANGED <<variant, isActive, isAnalyzing, highlightButton, layout, naming,
                   inlineZIndex,
                   modals,
                   trackedElements,
                   topZIndex, debug, dismissTimers, style, trackAttr,
                   modalAttr, isConnected, nextModalId, nextTrackId, zLog,
                   owner, everTracked, front, now, report, extracted>>
    /\ page' = newPage
    /\ observer' = newObserver

\* a hover whose handler leaves the document's tree as it is
MouseMove(target, inViewport) == Hovered(target, inViewport, page, observer)

\* the page calls setDebugConfig({showDebugPanel: show}) (class revisions)
SetDebugConfig(show) ==
    /\ variant # "hooks"
    /\ show => debug.intervals < MaxTimers
    /\ debug' = setDebugConfig(debug, show)
    /\ lastOp' = Op("setDebugConfig", NoId, "none")
    /\ preHighlight' = NoPreHighlight
    /\ UNCHANGED <<variant, isActive, isAnalyzing, highlightButton, layout, naming,
                   inlineZIndex,
                   modals,
                   trackedElements,
                   topZIndex, tooltip, dismissTimers, style, trackAttr,
                   modalAttr, isConnected, nextModalId, nextTrackId, zLog,
                   owner, everTracked, front>>
    /\ UNCHANGED analyzerVars

\* a scheduled debug-panel interval fires: debugPanel.update(getDebugData())
IntervalFires ==
    /\ debug.intervals > 0
    /\ lastOp' = Op("intervalFires", NoId, "none")
    /\ preHighlight' = NoPreHighlight
    /\ UNCHANGED <<variant, isActive, isAnalyzing, highlightButton, layout, naming,
                   inlineZIndex,
                   modals,
                   trackedElements,
                   topZIndex, tooltip, debug, dismissTimers, style, trackAttr,
                   modalAttr, isConnected, nextModalId, nextTrackId, zLog,
                   owner, everTracked, front>>
    /\ UNCHANGED analyzerVars

\* a pending dismissInstructions timeout fires
DismissFires ==
    /\ dismissTimers > 0
    /\ dismissTimers' = dismissTimers - 1
    /\ lastOp' = Op("dismissFires", NoId, "none")
    /\ preHighlight' = NoPreHighlight
    /\ UNCHANGED <<variant, isActive, isAnalyzing, highlightButton, layout, naming,
                   inlineZIndex,
                   modals,
                   trackedElements,
                   topZIndex, tooltip, debug, style, trackAttr,
                   modalAttr, isConnected, nextModalId, nextTrackId, zLog,
                   owner, everTracked, front>>
    /\ UNCHANGED analyzerVars

Next ==
    \/ DismissFires
    \/ \E e \in Elements : Disconnect(e)
    \/ Activate
    \/ Deactivate
    \/ \E e \in Elements : Click(e)
    \/ \E m \in ModalIds : ToggleHighlight(m)
    \/ \E m \in ModalIds : CloseModal(m)
    \/ \E m \in ModalIds : BringModalToFront(m)

Spec == Init /\ [][Next]_vars

\* the overlay with the pointer moving over the page as well
LifeCycleNext ==
    \/ Next
    \/ \E e \in Elements \cup {"overlay"}, inViewport \in BOOLEAN :
           MouseMove(e, inViewport)

LifeCycleSpec == Init /\ [][LifeCycleNext]_vars

\* documents for hover and click handling: e2 (node n4) may compute to an
\* empty font-family
PointerPages ==
    {[DefaultPage EXCEPT !.font["n4"] = f] : f \in {"'Arial'", ""}}

PointerInit ==
    /\ variant \in Variants
    /\ InitUI
    /\ layout = NoLayout
    /\ naming = NoName
    /\ inlineZIndex = NoInlineZIndex
    /\ page \in PointerPages

PointerSpec == PointerInit /\ [][LifeCycleNext]_vars

\* analyzeHierarchy / getFontUsageStats of the revision that runs
AnalyzeWith(S, element) ==
    IF variant = "dom" THEN Early_analyzeHierarchy(S, element, 0)
    ELSE analyzeHierarchy(S, element, 0)

FontUsageStatsOf(S) ==
    IF variant = "dom" THEN Early_getFontUsageStats(S) ELSE getFontUsageStats(S)

\* analyzeHeadless(): reset, analyzeHierarchy(document.body), the report
AnalyzeHeadless ==
    /\ now < MaxClock
    /\ LET r == AnalyzeWith(reset(analyzer), "n1")
       IN  /\ analyzer' = r.st
           /\ threw' = r.threw
           /\ report' = IF r.threw THEN report
                        ELSE [hierarchy |-> r.st.hierarchy,
                              fontUsageStats |-> FontUsageStatsOf(r.st),
                              passes |-> report.passes + 1]
    /\ now' = now + 1
    /\ lastOp' = Op("headless", NoId, "n1")
    /\ preHighlight' = NoPreHighlight
    /\ UNCHANGED <<variant, isActive, isAnalyzing, highlightButton, layout, naming,
                   inlineZIndex,
                   modals,
                   trackedElements,
                   topZIndex, tooltip, debug, dismissTimers, style, trackAttr,
                   modalAttr, isConnected, nextModalId, nextTrackId, zLog,
                   owner, everTracked, front, page, extracted, observer>>

\* the mutation observer reports node n as added: analyzeHierarchy(n)
HandleMutation(n) ==
    /\ isActive
    /\ page.kind[n] # "absent"
    /\ now < MaxClock
    /\ LET r == AnalyzeWith(analyzer, n)
       IN  analyzer' = r.st /\ threw' = r.threw
    /\ now' = now + 1
    /\ lastOp' = Op("mutation", NoId, n)
    /\ preHighlight' = NoPreHighlight
    /\ UNCHANGED <<variant, isActive, isAnalyzing, highlightButton, layout, naming,
                   inlineZIndex,
                   modals,
                   trackedElements,
                   topZIndex, tooltip, debug, dismissTimers, style, trackAttr,
                   modalAttr, isConnected, nextModalId, nextTrackId, zLog,
                   owner, everTracked, front, page, report, extracted,
                   observer>>

AnalyzerInit ==
    /\ variant \in {"state", "dom"}
    /\ InitUI
    /\ layout = NoLayout
    /\ naming = NoName
    /\ inlineZIndex = NoInlineZIndex
    /\ page \in Pages

AnalyzerNext ==
    \/ AnalyzeHeadless
    \/ \E n \in Nodes : HandleMutation(n)
    \/ Activate
    \/ Deactivate
    \/ DismissFires

AnalyzerSpec == AnalyzerInit /\ [][AnalyzerNext]_vars

\* a direct call getElementFontMetrics(n), as hover and click handling and
\* the tests make it
Extract(n) ==
    /\ LET r == IF variant = "dom"
                THEN Early_getElementFontMetrics(analyzer, n)
                ELSE [st |-> getElementFontMetrics(analyzer, n).st,
                      metrics |-> getElementFontMetrics(analyzer, n).metrics,
                      threw |-> FALSE]
       IN  /\ analyzer' = r.st
           /\ threw' = r.threw
           /\ extracted' = [element |-> n, metrics |-> r.metrics]
    /\ lastOp' = Op("extract", NoId, n)
    /\ preHighlight' = NoPreHighlight
    /\ UNCHANGED <<variant, isActive, isAnalyzing, highlightButton, layout, naming,
                   inlineZIndex,
                   modals,
                   trackedElements,
                   topZIndex, tooltip, debug, dismissTimers, style, trackAttr,
                   modalAttr, isConnected, nextModalId, nextTrackId, zLog,
                   owner, everTracked, front, page, now, report, observer>>

ScenarioInit ==
    /\ variant \in {"state", "dom"}
    /\ InitUI
    /\ layout = NoLayout
    /\ naming = NoName
    /\ inlineZIndex = NoInlineZIndex
    /\ page \in ScenarioPages

ScenarioSpec == ScenarioInit /\ [][AnalyzerNext]_vars

ExtractorInit ==
    /\ variant \in {"state", "dom"}
    /\ InitUI
    /\ layout = NoLayout
    /\ naming = NoName
    /\ inlineZIndex = NoInlineZIndex
    /\ page \in ExtractorPages

ExtractorNext ==
    \/ \E n \in Nodes : Extract(n)
    \/ AnalyzeHeadless
    \/ \E n \in Nodes : HandleMutation(n)
    \/ Activate
    \/ Deactivate
    \/ DismissFires

ExtractorSpec == ExtractorInit /\ [][ExtractorNext]_vars

\* the longest batch of mutation records delivered at once
MaxBatch == 2

RECURSIVE analyzeAdded(_, _)
\* mutation.addedNodes.forEach: analyzeHierarchy(node) for every added
\* element node with text; an exception leaves the loop
analyzeAdded(S, nodes) ==
    IF nodes = <<>> THEN [st |-> S, threw |-> FALSE]
    ELSE LET r == AnalyzeWith(S, Head(nodes))
         IN  IF r.threw THEN r ELSE analyzeAdded(r.st, Tail(nodes))

RECURSIVE handleMutations_EveryRecord(_, _)
\* handleMutations that also analyses the target of attribute and
\* characterData records
handleMutations_EveryRecord(S, mutations) ==
    IF mutations = <<>> THEN [st |-> S, threw |-> FALSE]
    ELSE LET mutation == Head(mutations)
             r == IF mutation.type = "childList"
                  THEN analyzeAdded(S, mutation.addedNodes)
                  ELSE analyzeAdded(S, <<mutation.target>>)
         IN  IF r.threw THEN r
             ELSE handleMutations_EveryRecord(r.st, Tail(mutations))

RECURSIVE handleMutations(_, _)
\* handleMutations(mutations) / the observer's callback: only childList
\* records are looked at, and of those only addedNodes
handleMutations(S, mutations) ==
    IF mutations = <<>> THEN [st |-> S, threw |-> FALSE]
    ELSE LET mutation == Head(mutations)
             r == IF mutation.type = "childList"
                  THEN analyzeAdded(S, mutation.addedNodes)
                  ELSE [st |-> S, threw |-> FALSE]
         IN  IF r.threw THEN r ELSE handleMutations(r.st, Tail(mutations))

\* the element nodes the childList records of batch list as added
ListedAdded(batch) ==
    {n \in Nodes \cup OwnNodes : \E i \in 1..Len(batch) :
        /\ batch[i].type = "childList"
        /\ \E j \in 1..Len(batch[i].addedNodes) : batch[i].addedNodes[j] = n}

\* the nodes the queued records list as added
QueuedAdded == ListedAdded(observer.queue)

\* the observer observes document.body (subtree, childList, characterData,
\* attributes style and class) from activate to deactivate
Observing == isActive /\ variant # "hooks" /\ Len(observer.queue) < MaxBatch

\* the page changed the document to newPage; the observer queues record
Mutated(name, n, newPage, record) ==
    /\ Observing
    /\ page' = newPage
    /\ observer' = [observer EXCEPT !.queue = Append(@, record)]
    /\ lastOp' = Op(name, NoId, n)
    /\ preHighlight' = NoPreHighlight
    /\ UNCHANGED <<variant, isActive, isAnalyzing, highlightButton, layout, naming,
                   inlineZIndex,
                   modals,
                   trackedElements,
                   topZIndex, tooltip, debug, dismissTimers, style, trackAttr,
                   modalAttr, isConnected, nextModalId, nextTrackId, zLog,
                   owner, everTracked, front, analyzer, now, report, threw,
                   extracted>>

\* the page sets the style or class of n: its font-family changes
SetStyle(n) ==
    /\ page.kind[n] # "absent"
    /\ Mutated("setStyle", n,
               [page EXCEPT !.font[n] = IF @ = "Georgia" THEN "arial" ELSE "Georgia"],
               MutationRecord("attributes", n, <<>>, <<>>))

\* the page changes the text of n, which keeps some text
SetText(n) ==
    /\ page.kind[n] # "absent"
    /\ Mutated("setText", n, page, MutationRecord("characterData", n, <<>>, <<>>))

\* the page removes the leaf n from its parent; a node added since the
\* last delivery is not removed again before the delivery
RemoveNode(n) ==
    /\ page.kind[n] # "absent"
    /\ n \notin QueuedAdded
    /\ Mutated("removeNode", n, [page EXCEPT !.kind[n] = "absent"],
               MutationRecord("childList", NodeParent(n), <<>>, <<n>>))

\* the page inserts the leaf n under its parent
InsertNode(n) ==
    /\ page.kind[n] = "absent"
    /\ page.kind[NodeParent(n)] # "absent"
    /\ Mutated("insertNode", n, [page EXCEPT !.kind[n] = "ok"],
               MutationRecord("childList", NodeParent(n), <<n>>, <<>>))

\* the queued records are delivered to the observer's callback in one batch
DeliverMutations ==
    /\ observer.queue # <<>>
    /\ now < MaxClock
    /\ LET r == handleMutations(analyzer, observer.queue)
       IN  analyzer' = r.st /\ threw' = r.threw
    /\ observer' = [queue |-> <<>>,
                    delivered |-> [records |-> Len(observer.queue),
                                   added |-> QueuedAdded]]
    /\ now' = now + 1
    /\ lastOp' = Op("mutations", NoId, "none")
    /\ preHighlight' = NoPreHighlight
    /\ UNCHANGED <<variant, isActive, isAnalyzing, highlightButton, layout, naming,
                   inlineZIndex,
                   modals,
                   trackedElements,
                   topZIndex, tooltip, debug, dismissTimers, style, trackAttr,
                   modalAttr, isConnected, nextModalId, nextTrackId, zLog,
                   owner, everTracked, front, page, report, extracted>>

\* the document body n1 > (n2, n3) with n3 in Georgia; the leaf n4 of n2
\* is not inserted yet
MutationPage ==
    [kind |-> [n \in Nodes |-> IF n = "n4" THEN "absent" ELSE "ok"],
     font |-> [n \in Nodes |-> CASE n = "n3" -> "Georgia"
                                 [] n = "n4" -> "'Arial'"
                                 [] OTHER    -> "arial"]]

MutationInit ==
    /\ variant \in {"state", "dom"}
    /\ InitUI
    /\ layout = NoLayout
    /\ naming = NoName
    /\ inlineZIndex = NoInlineZIndex
    /\ page = MutationPage

\* one session of the overlay: documents change while it is active
MutationNext ==
    \/ Activate
    \/ AnalyzeHeadless
    \/ SetStyle("n2")
    \/ SetText("n2")
    \/ RemoveNode("n3")
    \/ \E n \in {"n3", "n4"} : InsertNode(n)
    \/ DeliverMutations

MutationSpec == MutationInit /\ [][MutationNext]_vars

\* the document body n1 > n3; n2 and its child n4 are not inserted yet
GrowingPage ==
    [kind |-> [n \in Nodes |-> IF n \in {"n2", "n4"} THEN "absent" ELSE "ok"],
     font |-> [n \in Nodes |-> CASE n = "n3" -> "Georgia"
                                 [] n = "n4" -> "'Arial'"
                                 [] OTHER    -> "arial"]]

GrowingInit ==
    /\ variant \in {"state", "dom"}
    /\ InitUI
    /\ layout = NoLayout
    /\ naming = NoName
    /\ inlineZIndex = NoInlineZIndex
    /\ page = GrowingPage

\* a page that builds a subtree node by node while the overlay is active
GrowingNext ==
    \/ Activate
    \/ Deactivate
    \/ AnalyzeHeadless
    \/ \E n \in {"n2", "n3", "n4"} : InsertNode(n)
    \/ \E n \in {"n3", "n4"} : RemoveNode(n)
    \/ DeliverMutations

GrowingSpec == GrowingInit /\ [][GrowingNext]_vars

RestyleInit ==
    /\ variant \in {"state", "dom"}
    /\ InitUI
    /\ layout = NoLayout
    /\ naming = NoName
    /\ inlineZIndex = NoInlineZIndex
    /\ page = DefaultPage

\* a session in which the page changes the style or class of the elements
\* the pointer visits
RestyleNext ==
    \/ Activate
    \/ Deactivate
    \/ \E e \in Elements : MouseMove(e, TRUE)
    \/ \E e \in Elements : Click(e)
    \/ \E e \in Elements : SetStyle(NodeOf(e))
    \/ DeliverMutations

RestyleSpec == RestyleInit /\ [][RestyleNext]_vars

\* the document body n1 > (n2 > n4); n3 is not inserted yet, and none of
\* the overlay's own elements is in the document.  The overlay's elements
\* compute to the first family of their font-family list, the measuring
\* element has no font-family of its own.
OwnPage ==
    [kind |-> [n \in Nodes \cup OwnNodes |->
                 IF n \in OwnNodes \cup {"n3"} THEN "absent" ELSE "ok"],
     font |-> [n \in Nodes \cup OwnNodes |->
                 CASE n \in {"instructionTooltip", "modal", "modalContent"}
                                 -> "Segoe UI"
                   [] n = "temp" -> ""
                   [] n = "n3"   -> "Georgia"
                   [] OTHER      -> "arial"]]

\* the records of an earlier task were delivered at the microtask
\* checkpoint that ended it
Delivered == observer.queue = <<>>

\* activate() with what it does to the document.  FontDetectorUI.ts:
\* setupMutationObserver(), then document.body.appendChild of the
\* instruction tooltip, which holds text.  FontDetectorUI.tsx:
\* shadowContainer.mount() appends the container before
\* setupMutationObserver() starts the observation.
ActivateInDocument ==
    /\ Delivered
    /\ ~isActive
    /\ variant = "dom" => dismissTimers < MaxTimers
    /\ Committed(IF variant = "dom" THEN Dom_activate(Cur) ELSE activate(Cur),
                 Op("activate", NoId, "none"),
                 IF variant = "dom"
                 THEN [page EXCEPT !.kind["instructionTooltip"] = "ok"]
                 ELSE page,
                 IF variant = "dom"
                 THEN [disconnect(observer) EXCEPT !.queue =
                         <<MutationRecord("childList", "n1",
                                          <<"instructionTooltip">>, <<>>)>>]
                 ELSE disconnect(observer))

\* a click on page element target with what it does to the document.
\* FontDetectorUI.ts: createModal appends the panel to document.body, the
\* innerHTML assignment adds its markup, and dismissInstructions, the
\* second click listener, removes the instruction tooltip.
\* FontDetectorUI.tsx: the panel is rendered inside the shadow root, which
\* the observer of document.body does not reach.
ClickInDocument(target) ==
    /\ Delivered
    /\ isActive
    /\ isConnected[target]
    /\ LET S2 == IF variant = "dom"
                 THEN Dom_handleClick(Cur, target, nextModalId, nextTrackId,
                                      MetricsFor(target).metrics)
                 ELSE handleClick(Cur, target, nextModalId,
                                  MetricsFor(target).metrics)
           created == variant = "dom" /\ nextModalId \in DOMAIN S2.modals
           dismissed == variant = "dom" /\ page.kind["instructionTooltip"] = "ok"
           panel == IF created
                    THEN <<MutationRecord("childList", "n1", <<"modal">>, <<>>),
                           MutationRecord("childList", "modal",
                                          <<"modalContent">>, <<>>)>>
                    ELSE <<>>
           tip == IF dismissed
                  THEN <<MutationRecord("childList", "n1", <<>>,
                                        <<"instructionTooltip">>)>>
                  ELSE <<>>
       IN  Committed(S2, Op("open", nextModalId, target),
                     [page EXCEPT
                        !.kind["modal"] = IF created THEN "ok" ELSE @,
                        !.kind["modalContent"] = IF created THEN "ok" ELSE @,
                        !.kind["instructionTooltip"] =
                            IF dismissed THEN "absent" ELSE @],
                     [observer EXCEPT !.queue = @ \o panel \o tip])

\* a hover over page element target with what it does to the document.
\* FontDetectorUI.tsx: calculateTooltipPosition appends a measuring element
\* holding the tooltip's text to document.body and removes it again; when
\* the records are delivered it is detached, its offsetWidth is 0.
\* FontDetectorUI.ts: tooltip.textContent adds a text node to the tooltip.
MouseMoveInDocument(target) ==
    /\ Delivered
    /\ Hovered(target, TRUE,
               IF variant = "state" /\ MetricsFor(target).metrics # NoMetrics
               THEN [page EXCEPT !.kind["temp"] = "hidden"]
               ELSE page,
               IF variant = "state" /\ MetricsFor(target).metrics # NoMetrics
               THEN [observer EXCEPT !.queue = @ \o
                       <<MutationRecord("childList", "n1", <<"temp">>, <<>>),
                         MutationRecord("childList", "n1", <<>>, <<"temp">>)>>]
               ELSE IF variant = "dom"
               THEN [observer EXCEPT !.queue = @ \o
                       <<MutationRecord("childList", "tooltip", <<>>, <<>>)>>]
               ELSE observer)

\* deactivate() as a task of its own
DeactivateInDocument == Delivered /\ Deactivate

OwnInit ==
    /\ variant \in {"state", "dom"}
    /\ InitUI
    /\ layout = NoLayout
    /\ naming = NoName
    /\ inlineZIndex = NoInlineZIndex
    /\ page = OwnPage

\* a session in which the document changes through the overlay's own
\* insertions and through one insertion of the page
OwnNext ==
    \/ ActivateInDocument
    \/ DeactivateInDocument
    \/ \E e \in Elements : MouseMoveInDocument(e)
    \/ \E e \in Elements : ClickInDocument(e)
    \/ InsertNode("n3")
    \/ DeliverMutations

OwnSpec == OwnInit /\ [][OwnNext]_vars

\* the highlight buttons of the DOM revision, click by click
ToggleInit ==
    /\ variant = "dom"
    /\ InitUI
    /\ layout = NoLayout
    /\ naming = NoName
    /\ inlineZIndex = NoInlineZIndex
    /\ page = DefaultPage

ToggleNext ==
    \/ Activate
    \/ \E e \in Elements : Click(e)
    \/ \E m \in ModalIds, throws \in BOOLEAN : HighlightButtonClick(m, throws)
    \/ \E m \in ModalIds : GuardTimerFires(m)
    \/ \E m \in ModalIds : CloseModal(m)

ToggleSpec == ToggleInit /\ [][ToggleNext]_vars

\* timers fire: a pending setTimeout callback runs in the end
ToggleLiveSpec ==
    ToggleSpec /\ \A m \in ModalIds : WF_vars(GuardTimerFires(m))

\* viewports from narrower and lower than a panel with its padding to
\* wide, scroll offsets, and click positions inside the viewport, in px
ViewportWidths == {320, 400, 1000}
ViewportHeights == {400, 500, 800}
ScrollOffsets == {0, 100}
ClientXs == {0, 5, 150, 200, 315, 600, 990}
ClientYs == {0, 5, 100, 250, 390, 700}

Layouts ==
    {[NoLayout EXCEPT !.viewportWidth = w, !.viewportHeight = h,
                      !.scrollX = sx, !.scrollY = sy,
                      !.clientX = cx, !.clientY = cy] :
        w \in ViewportWidths, h \in ViewportHeights,
        sx \in {0}, sy \in ScrollOffsets,
        cx \in ClientXs, cy \in ClientYs}

\* handleClick computes the position of the panel it opens, and the Modal
\* component of the class revision passes it through useModalPosition
OpenPanelAt ==
    /\ ~layout.opened
    /\ LET position == IF variant = "dom" THEN Dom_modalPosition(layout)
                       ELSE calculateInitialModalPosition(layout)
       IN  layout' = [layout EXCEPT
                        !.opened = TRUE,
                        !.position = position,
                        !.shown = IF variant = "dom" THEN position
                                  ELSE useModalPosition(layout, position)]
    /\ lastOp' = Op("position", NoId, "none")
    /\ UNCHANGED <<variant, isActive, isAnalyzing, highlightButton, naming, modals,
                   inlineZIndex,
                   trackedElements, topZIndex, tooltip, debug, dismissTimers,
                   style, trackAttr, modalAttr, isConnected, nextModalId,
                   nextTrackId, zLog, owner, everTracked, preHighlight, front>>
    /\ UNCHANGED analyzerVars

PositionInit ==
    /\ variant \in {"state", "dom"}
    /\ InitUI
    /\ naming = NoName
    /\ inlineZIndex = NoInlineZIndex
    /\ page = DefaultPage
    /\ layout \in {L \in Layouts : L.clientX < L.viewportWidth
                                  /\ L.clientY < L.viewportHeight}

PositionNext == OpenPanelAt

PositionSpec == PositionInit /\ [][PositionNext]_vars

\* a caller hands the name to standardizeFontName, and the result once more
StandardizeName ==
    /\ ~naming.standardized
    /\ LET result == IF variant = "state"
                     THEN standardizeName(naming.fontName)
                     ELSE Early_standardizeName(naming.fontName)
       IN  naming' = [naming EXCEPT
                        !.standardized = TRUE,
                        !.result = result,
                        !.again = IF variant = "state"
                                  THEN standardizeName(result)
                                  ELSE Early_standardizeName(result)]
    /\ lastOp' = Op("standardize", NoId, "none")
    /\ UNCHANGED <<variant, isActive, isAnalyzing, highlightButton, layout,
                   inlineZIndex, modals, trackedElements, topZIndex, tooltip, debug,
                   dismissTimers, style, trackAttr, modalAttr, isConnected,
                   nextModalId, nextTrackId, zLog, owner, everTracked,
                   preHighlight, front>>
    /\ UNCHANGED analyzerVars

\* getElementFontMetrics asks for the category of the name
Categorize ==
    /\ variant = "state"
    /\ naming.category = "none"
    /\ naming' = [naming EXCEPT !.category = getFontCategory(naming.fontName)]
    /\ lastOp' = Op("categorize", NoId, "none")
    /\ UNCHANGED <<variant, isActive, isAnalyzing, highlightButton, layout,
                   inlineZIndex, modals, trackedElements, topZIndex, tooltip, debug,
                   dismissTimers, style, trackAttr, modalAttr, isConnected,
                   nextModalId, nextTrackId, zLog, owner, everTracked,
                   preHighlight, front>>
    /\ UNCHANGED analyzerVars

NameInit ==
    /\ variant \in {"state", "dom"}
    /\ InitUI
    /\ layout = NoLayout
    /\ page = DefaultPage
    /\ naming \in {[NoName EXCEPT !.fontName = n] : n \in FontNames}
    /\ inlineZIndex = NoInlineZIndex

NameNext ==
    \/ StandardizeName
    \/ Categorize

NameSpec == NameInit /\ [][NameNext]_vars

\* a script of the page writes data-font-track-id of element e: removes it
\* or sets a value of its own
SetTrackAttribute(e, value) ==
    /\ trackAttr[e] # value
    /\ trackAttr' = [trackAttr EXCEPT ![e] = value]
    /\ lastOp' = Op("setAttribute", NoId, e)
    /\ preHighlight' = NoPreHighlight
    /\ UNCHANGED <<variant, isActive, isAnalyzing, highlightButton, layout, naming,
                   inlineZIndex,
                   modals,
                   trackedElements,
                   topZIndex, tooltip, debug, dismissTimers, style, isConnected, modalAttr, nextModalId,
                   nextTrackId, zLog, owner, everTracked, front>>
    /\ UNCHANGED analyzerVars

AttributeInit ==
    /\ variant \in {"state", "dom"}
    /\ InitUI
    /\ layout = NoLayout
    /\ naming = NoName
    /\ inlineZIndex = NoInlineZIndex
    /\ page = DefaultPage

\* a session on a page whose scripts write the track attribute as well
AttributeNext ==
    \/ Activate
    \/ Deactivate
    \/ \E e \in Elements : Click(e)
    \/ \E m \in ModalIds : ToggleHighlight(m)
    \/ \E m \in ModalIds : CloseModal(m)
    \/ \E e \in Elements, value \in {NoId, ForeignId} : SetTrackAttribute(e, value)

AttributeSpec == AttributeInit /\ [][AttributeNext]_vars

\* pages whose elements may have an inline z-index of their own
InlineZIndexes == [Elements -> {NoZIndex, 1}]

StyleInit ==
    /\ variant \in Variants
    /\ InitUI
    /\ layout = NoLayout
    /\ naming = NoName
    /\ inlineZIndex \in InlineZIndexes
    /\ page = DefaultPage

StyleSpec == StyleInit /\ [][Next]_vars

\* the life cycle with the debug panel and the timers, no panels opened
TimerNext ==
    \/ Activate
    \/ Deactivate
    \/ \E show \in BOOLEAN : SetDebugConfig(show)
    \/ IntervalFires
    \/ DismissFires
    \/ \E e \in Elements \cup {"overlay"}, inViewport \in BOOLEAN :
           MouseMove(e, inViewport)

TimerSpec == Init /\ [][TimerNext]_vars

----------------------------------------------------------------------------
(* Properties *)

\* element e is part of the page (connected to the document)
PageElement(e) == isConnected[e]

\* C1: every page element carries data-font-track-id if and only if the
\* tracked-elements map holds an entry under that identifier; attribute and
\* entry are never present one without the other.
C1_AttributeIffEntry ==
    /\ \A e \in Elements :
         (PageElement(e) /\ trackAttr[e] # NoId)
            => /\ trackAttr[e] \in DOMAIN trackedElements
               /\ trackedElements[trackAttr[e]].element = e
    /\ \A t \in DOMAIN trackedElements :
         PageElement(trackedElements[t].element)
            => trackAttr[trackedElements[t].element] = t

\* C2: at most one tracked-elements entry refers to any DOM element.
C2_OneEntryPerElement ==
    \A e \in Elements : Cardinality(EntriesOf(trackedElements, e)) <= 1

\* C2 witness: a highlight-on through a second panel on an element that is
\* already tracked through another panel.
C2_Witness ==
    /\ lastOp.op = "highlightOn"
    /\ \E t \in EntriesOf(trackedElements, lastOp.element) : owner[t] # lastOp.modal
    /\ \E m \in DOMAIN modals :
         m # lastOp.modal /\ modals[m].targetElement = lastOp.element

\* C3: round trip. Highlight-on of an untracked element directly followed by
\* highlight-off of the same element leaves its outline and background-color
\* with the (computed) values they had before the first call, and leaves the
\* element untracked.
C3_RoundTrip ==
    [][ (/\ preHighlight.element # "none"
         /\ ~preHighlight.wasTracked
         /\ lastOp'.op = "highlightOff"
         /\ lastOp'.element = preHighlight.element)
        => (/\ ComputedValue(style'[preHighlight.element].outline,
                             isConnected'[preHighlight.element], "outline")
                 = preHighlight.computed.outline
            /\ ComputedValue(style'[preHighlight.element].backgroundColor,
                             isConnected'[preHighlight.element], "backgroundColor")
                 = preHighlight.computed.backgroundColor
            /\ EntriesOf(trackedElements', preHighlight.element) = {}) ]_vars

\* C3 witness: a highlight-off right after the highlight-on of an element
\* that had an inline style of its own and was not tracked before.
C3_Witness ==
    /\ lastOp.op = "highlightOff"
    /\ lastOp.element = "e1"
    /\ isConnected["e1"]
    /\ EntriesOf(trackedElements, "e1") = {}
    /\ style["e1"].outline = Resolve(InitialStyle("e1").outline)
    /\ lastOp.modal \in DOMAIN modals

Highlighted(st, e) ==
    Resolve(st[e].outline) = Resolve(HighlightStyle.outline)

\* the snapshot held for element e under a tracked entry created through
\* panel m, if there is one
SnapshotsOf(m, e) ==
    {trackedElements[t].originalStyles :
        t \in {x \in EntriesOf(trackedElements, e) : owner[x] = m}}

\* what closing panel m, flagged highlighted, has to leave behind
ClosedClean(m) ==
    LET e == modals[m].targetElement
    IN  /\ ~Highlighted(style', e)
        /\ \A snap \in SnapshotsOf(m, e) : style'[e] = snap
        /\ \A t \in DOMAIN trackedElements' : owner'[t] # m

C6_DeactivateRestoresInline ==
    lastOp.op = "deactivate"
      => \A e \in everTracked :
            /\ style[e] = InitialStyle(e)
            /\ trackAttr[e] = NoId
            /\ modalAttr[e] = NoId

\* C7: after deactivate(), no element in the document carries
\* data-font-track-id, and every element that was highlighted shows its
\* pre-highlight (computed) outline and background-color.
C7_DeactivateLeavesNoAttribute ==
    lastOp.op = "deactivate"
      => /\ \A e \in Elements : PageElement(e) => trackAttr[e] = NoId
         /\ \A e \in everTracked :
               PageElement(e) =>
                  getComputedStyle(Cur, e) =
                     [outline |-> ComputedValue(InitialStyle(e).outline,
                                                TRUE, "outline"),
                      backgroundColor |->
                         ComputedValue(InitialStyle(e).backgroundColor,
                                       TRUE, "backgroundColor")]

\* C8: within one Active session the zIndex values assigned by open and
\* bringToFront are strictly increasing, also past panels closed since.
C8_ZIndexStrictlyIncreasing ==
    \A i \in 1..Len(zLog) : \A j \in 1..Len(zLog) :
       i < j => zLog[i] < zLog[j]

\* highest zIndex over the open panels in ms
MaxZ(ms) == Max({ms[m].zIndex : m \in DOMAIN ms})

\* C9: right after bringToFront(P), and until another panel is opened or
\* brought to front, zIndex(P) is the maximum zIndex over all open panels.
C9_FrontHoldsMax ==
    front # NoId =>
       /\ front \in DOMAIN modals
       /\ modals[front].zIndex = MaxZ(modals)

\* C9 witness: the older of two open panels was brought to front and still
\* holds the maximum after a later highlight toggle on it.
C9_Witness ==
    /\ front # NoId
    /\ \E m \in DOMAIN modals : m > front /\ modals[m].zIndex < modals[front].zIndex
    /\ lastOp.op = "highlightOn"
    /\ lastOp.modal = front

\* C10: bringToFront(P) on a panel that already holds the maximum zIndex
\* changes neither P's zIndex nor the z-index counter; otherwise it sets
\* P's zIndex to the current maximum plus one.
C10_BringToFrontNoOpAtMax ==
    [][ \A m \in DOMAIN modals :
          (lastOp'.op = "bringToFront" /\ lastOp'.modal = m)
          => IF modals[m].zIndex = MaxZ(modals)
             THEN modals' = modals /\ topZIndex' = topZIndex
             ELSE /\ m \in DOMAIN modals'
                  /\ modals'[m].zIndex = MaxZ(modals) + 1 ]_vars

\* the first three zIndex assignments of a fresh session: panel 1 opened
\* with zIndex z1, panel 2 opened with z2, then panel 1 brought to front
\* and set to z3 while panel 2 keeps every field
FirstThreeAssignments(z1, z2, z3) ==
    /\ (/\ lastOp'.op = "open" /\ lastOp'.modal = 1
        /\ zLog = <<>> /\ topZIndex = baseZIndex
        /\ 1 \in DOMAIN modals')
       => modals'[1].zIndex = z1
    /\ (/\ lastOp'.op = "open" /\ lastOp'.modal = 2
        /\ Len(zLog) = 1 /\ DOMAIN modals = {1}
        /\ 2 \in DOMAIN modals')
       => (modals'[2].zIndex = z2 /\ modals'[1] = modals[1])
    /\ (/\ lastOp'.op = "bringToFront" /\ lastOp'.modal = 1
        /\ Len(zLog) = 2 /\ DOMAIN modals = {1, 2})
       => (/\ DOMAIN modals' = {1, 2}
           /\ modals'[1].zIndex = z3
           /\ modals'[2] = modals[2])

\* C11 (as stated): in a fresh session panel P1 opens with zIndex 10001,
\* P2 then opens with zIndex 10002, and a click inside P1 sets P1.zIndex to
\* 10003 while P2 is unchanged.
C11_ScenarioFromBase ==
    [][FirstThreeAssignments(10001, 10002, 10003)]_vars

\* C11 (amended): in a fresh session panel P1 opens with zIndex 10002 (the
\* base value plus one), P2 then opens with zIndex 10003, and a click inside
\* P1 sets P1.zIndex to 10004 while P2 is unchanged.
C11_ScenarioFromBasePlusOne ==
    [][FirstThreeAssignments(10002, 10003, 10004)]_vars

\* C11 witness: the state after the three steps of the scenario.
C11_Witness ==
    /\ lastOp.op = "bringToFront" /\ lastOp.modal = 1
    /\ Len(zLog) = 3
    /\ DOMAIN modals = {1, 2}
    /\ modals[1].targetElement # modals[2].targetElement
    /\ modals[1].zIndex > modals[2].zIndex

\* the engine is in its initial state
InitialEngineState(active, ms, tracked, top, tt) ==
    /\ active = FALSE
    /\ ms = EmptyMap
    /\ tracked = EmptyMap
    /\ top = baseZIndex
    /\ tt = HiddenTooltip

\* C12: deactivate() from any reachable state ends in the initial state (no
\* panels, no tracked elements, z-index counter at its base value, tooltip
\* hidden with empty content, isActive false), and a deactivate() right
\* after a deactivate() changes neither that state nor the host DOM.
C12_DeactivateReachesInitialState ==
    [][ lastOp'.op = "deactivate"
        => /\ InitialEngineState(isActive', modals', trackedElements',
                                 topZIndex', tooltip')
           /\ lastOp.op = "deactivate"
              => UNCHANGED <<isActive, modals, trackedElements, topZIndex,
                             tooltip, style, trackAttr, modalAttr>> ]_vars

\* C13: after deactivate() returns no timer started by the overlay remains
\* scheduled: no debug-panel refresh interval, also when it was started more
\* than once, and no instruction-dismiss timeout.
C13_NoTimerSurvivesDeactivate ==
    lastOp.op = "deactivate" => (debug.intervals = 0 /\ dismissTimers = 0)

\* C14: the life cycle can be restarted: every call of the activation entry
\* point made while the overlay is inactive, also after any number of
\* activate / deactivate cycles, enters Active.
C14_ActivationEntersActive ==
    [][ lastOp'.op = "activate" => isActive' ]_vars

\* C15: the cleanup of all tracked elements restores outline and
\* background-color and removes the track attribute of every tracked element
\* that is connected to the document, writes nothing to a tracked element the
\* page has removed, and leaves the tracked-elements map empty.
C15_CleanupAllSkipsDisconnected ==
    [][ lastOp'.op = "deactivate"
        => /\ trackedElements' = EmptyMap
           /\ \A t \in DOMAIN trackedElements :
                LET e == trackedElements[t].element
                IN  IF isConnected[e]
                    THEN /\ style'[e] = trackedElements[t].originalStyles
                         /\ trackAttr'[e] = NoId
                    ELSE /\ style'[e] = style[e]
                         /\ trackAttr'[e] = trackAttr[e] ]_vars

----------------------------------------------------------------------------
(* Font hierarchy analyzer: properties *)

\* a qualifying element: tag not excluded, visible, with text, style readable
Qualifies(n) == page.kind[n] = "ok"

RECURSIVE NearestQualifyingAncestor(_)
NearestQualifyingAncestor(n) ==
    LET p == NodeParent(n)
    IN  IF p = "none" THEN "none"
        ELSE IF Qualifies(p) THEN p
        ELSE NearestQualifyingAncestor(p)

\* the positions of the hierarchy nodes made for element n
NodesOf(h, n) == {i \in 1..Len(h) : h[i].element = n}

\* no element of the page throws
NothingThrows == \A n \in Nodes : page.kind[n] \in {"ok", "hidden"}

\* C16: after analyzeHierarchy(document.body) on a new analyzer, every
\* qualifying element has exactly one hierarchy node, and that node is a
\* child of the node of its nearest qualifying ancestor, or a root when it
\* has none, also when a non-qualifying element lies in between
C16_NodeUnderNearestQualifyingAncestor ==
    (lastOp.op = "headless" /\ NothingThrows) =>
        \A n \in Nodes :
            Qualifies(n) =>
                /\ Cardinality(NodesOf(analyzer.hierarchy, n)) = 1
                /\ \A i \in NodesOf(analyzer.hierarchy, n) :
                      LET a == NearestQualifyingAncestor(n)
                      IN  IF a = "none"
                          THEN analyzer.hierarchy[i].parent = 0
                          ELSE analyzer.hierarchy[i].parent \in
                                   NodesOf(analyzer.hierarchy, a)

\* C17: after every usage-counter update since the last reset the primary
\* font is a font whose counter is the highest one, and of the fonts that
\* reached that count it is the one that reached it first
C17_PrimaryIsFirstAtMax ==
    /\ analyzer.primaryOk
    /\ analyzer.fontUsageStats # <<>> =>
          /\ CountOf(analyzer.fontUsageStats, analyzer.primaryFont) =
                 MaxCount(analyzer.fontUsageStats)
          /\ analyzer.primaryFont = analyzer.firstAtMax

\* two fonts tie at the highest count and the primary font is the one counted
\* second for the first time, which reached that count first
C17_Witness ==
    /\ Len(analyzer.fontUsageStats) = 2
    /\ analyzer.fontUsageStats[1].count = 2
    /\ analyzer.fontUsageStats[2].count = 2
    /\ analyzer.primaryFont = analyzer.fontUsageStats[2].name
    /\ analyzer.primaryOk

\* the position at which a font was first counted (Map insertion order)
FirstCounted(S, name) ==
    CHOOSE i \in 1..Len(S.fontUsageStats) : S.fontUsageStats[i].name = name

\* r lists the counters of S, highest count first
OrderedByCount(r, S) ==
    /\ Len(r) = Len(S.fontUsageStats)
    /\ \A i \in 1..Len(r) : \E k \in 1..Len(r) : S.fontUsageStats[k] = r[i]
    /\ \A i, j \in 1..Len(r) : i < j => r[i].count >= r[j].count

\* fonts of equal count come in the order in which they were first counted
TiesInInsertionOrder(r, S) ==
    \A i, j \in 1..Len(r) :
        (i < j /\ r[i].count = r[j].count) =>
            FirstCounted(S, r[i].name) < FirstCounted(S, r[j].name)

\* C18: getFontUsageStats() lists the fonts by non-increasing count, fonts
\* of equal count in the order in which they were first counted, and its
\* first entry is the primary font whenever a font was counted
C18_StatsSortedPrimaryFirst ==
    LET r == FontUsageStatsOf(analyzer)
    IN  /\ OrderedByCount(r, analyzer)
        /\ TiesInInsertionOrder(r, analyzer)
        /\ r # <<>> => r[1].name = getPrimaryFont(analyzer)

\* a hierarchy without the time stamps of its font metrics
WithoutLoadTimes(h) ==
    [i \in 1..Len(h) |-> [h[i] EXCEPT !.fontMetrics.loadTime = NoTime]]

RECURSIVE Reachable(_)
\* n can be reached from document.body through elements that got a node
Reachable(n) ==
    LET p == NodeParent(n)
    IN  p = "none" \/ (Qualifies(p) /\ Reachable(p))

\* the elements analyzeHierarchy(document.body) has to visit and count
Expected == {n \in Nodes : Qualifies(n) /\ Reachable(n)}

\* C20: when an element fails with an exception in the visibility/text
\* predicate or in the metrics extraction, analyzeHierarchy(document.body)
\* does not throw, and every element that can be reached without passing
\* through a failing one has its node and is counted
C20_FailureContained ==
    lastOp.op = "headless" =>
        /\ ~threw
        /\ \A n \in Expected : NodesOf(analyzer.hierarchy, n) # {}
        /\ \A i \in 1..Len(analyzer.fontUsageStats) :
              analyzer.fontUsageStats[i].count >=
                  Cardinality({n \in Expected :
                      standardizeFontName(page.font[n]) =
                          analyzer.fontUsageStats[i].name})
        /\ \A n \in Expected :
              CountOf(analyzer.fontUsageStats,
                      standardizeFontName(page.font[n])) > 0

----------------------------------------------------------------------------
(* Metrics extractor: properties *)

\* the element computes to a font family the extractor can read
Resolvable(n) == page.kind[n] \in {"ok", "hidden"} /\ page.font[n] # ""

\* C21: for an element with a resolvable font family, a direct call of
\* getElementFontMetrics returns metrics equal in every field, loadTime
\* included, to those the direct call before it returned for that element,
\* whether or not an analysis pass ran in between (styles never change)
C21_ExtractIdempotent ==
    [][ ( /\ lastOp'.op = "extract"
          /\ extracted.element = lastOp'.element
          /\ Resolvable(lastOp'.element) )
        => extracted'.metrics = extracted.metrics ]_vars

\* the extractor has to fail for n: no resolvable font family, or invisible
MustFail(n) == page.font[n] = "" \/ page.kind[n] = "hidden"

\* C22: for an element without a resolvable font family, or an invisible
\* one, a direct call of the extractor returns null, and analyzeHierarchy
\* makes no node for it
C22_NullForUnanalyzable ==
    /\ (lastOp.op = "extract" /\ MustFail(lastOp.element)) =>
           (~threw /\ extracted.metrics = NoMetrics)
    /\ \A n \in Nodes : MustFail(n) => NodesOf(analyzer.hierarchy, n) = {}

----------------------------------------------------------------------------
(* Scenario: div > [h1 (Arial), p (Georgia)] *)

\* the hierarchy is one root for the div with the children h1 and p, in this
\* order, carrying Arial and Georgia
ScenarioHierarchy(h) ==
    /\ Len(h) = 3
    /\ h[1].element = "n1" /\ h[1].parent = 0
    /\ h[2].element = "n2" /\ h[2].parent = 1 /\ h[2].fontMetrics.name = "Arial"
    /\ h[3].element = "n3" /\ h[3].parent = 1 /\ h[3].fontMetrics.name = "Georgia"

\* the counters as a set of name/count pairs
CountsOf(S) == {S.fontUsageStats[i] : i \in 1..Len(S.fontUsageStats)}

\* C23: analysing the tree after reset gives the root div with the children
\* h1 (Arial) and p (Georgia), the usage counts {Arial: 1, Georgia: 1} and
\* the primary font Arial
C23_ScenarioCountsChildrenOnly ==
    lastOp.op = "headless" =>
        /\ ScenarioHierarchy(analyzer.hierarchy)
        /\ CountsOf(analyzer) = {[name |-> "Arial", count |-> 1],
                                 [name |-> "Georgia", count |-> 1]}
        /\ getPrimaryFont(analyzer) = "Arial"

\* C23, amended: the div's own font is counted as well, so every font has
\* as many counts as elements of div, h1, p computing to it, and the primary
\* font is the font of the div
C23_ScenarioCountsDivToo ==
    lastOp.op = "headless" =>
        /\ ScenarioHierarchy(analyzer.hierarchy)
        /\ CountsOf(analyzer) =
              {[name |-> f,
                count |-> Cardinality({n \in {"n1", "n2", "n3"} :
                              standardizeFontName(page.font[n]) = f})] :
                 f \in {standardizeFontName(page.font[n]) : n \in {"n1", "n2", "n3"}}}
        /\ getPrimaryFont(analyzer) = standardizeFontName(page.font["n1"])

\* the scenario was analysed with a div computing to Arial: Arial 2, Georgia 1
C23_Witness ==
    /\ lastOp.op = "headless"
    /\ variant = "state"
    /\ page.font["n1"] = "arial"
    /\ CountsOf(analyzer) = {[name |-> "Arial", count |-> 2],
                             [name |-> "Georgia", count |-> 1]}
    /\ getPrimaryFont(analyzer) = "Arial"

----------------------------------------------------------------------------
(* Clicks and pointer moves: properties *)

\* the operations a click inside panel m stands for
PanelClicks == {"close", "bringToFront", "highlightOn", "highlightOff"}

\* every panel but m is as before
OthersUnchanged(m) ==
    \A o \in DOMAIN modals \ {m} : o \in DOMAIN modals' /\ modals'[o] = modals[o]

\* C24: while active, a click inside an open panel creates no panel; on the
\* close control it closes that panel, anywhere else it brings that panel in
\* front of all others; every other panel stays as it was
C24_PanelClickNeverOpens ==
    [][ (isActive /\ lastOp'.op \in PanelClicks) =>
          /\ DOMAIN modals' \subseteq DOMAIN modals
          /\ OthersUnchanged(lastOp'.modal)
          /\ lastOp'.op = "close" => lastOp'.modal \notin DOMAIN modals'
          /\ lastOp'.op = "bringToFront" =>
                /\ lastOp'.modal \in DOMAIN modals'
                /\ \A o \in DOMAIN modals' \ {lastOp'.modal} :
                      modals'[lastOp'.modal].zIndex > modals'[o].zIndex ]_vars

\* a click inside the lower one of two open panels brought it to front
C24_Witness ==
    /\ isActive
    /\ lastOp.op = "bringToFront"
    /\ Cardinality(DOMAIN modals) = 2
    /\ lastOp.modal \in DOMAIN modals
    /\ lastOp.modal = Max(DOMAIN modals)
    /\ \E o \in DOMAIN modals : modals[lastOp.modal].zIndex > modals[o].zIndex + 1

\* the extractor of the running revision gives metrics for page element e
YieldsMetrics(e) == e \in Elements /\ MetricsFor(e).metrics # NoMetrics

\* C25: while active, a click on a page element that yields metrics adds
\* exactly one panel, not highlighted and holding those metrics, and leaves
\* every open panel as it was, also when the element or an ancestor of it
\* is already the target of an open panel
C25_ClickAddsOnePanel ==
    [][ (isActive /\ lastOp'.op = "open" /\ YieldsMetrics(lastOp'.element)) =>
          /\ lastOp'.modal \notin DOMAIN modals
          /\ DOMAIN modals' = DOMAIN modals \cup {lastOp'.modal}
          /\ modals'[lastOp'.modal].targetElement = lastOp'.element
          /\ ~modals'[lastOp'.modal].isHighlighted
          /\ modals'[lastOp'.modal].metrics = MetricsFor(lastOp'.element).metrics
          /\ \A o \in DOMAIN modals : modals'[o] = modals[o] ]_vars

\* C26: while active, after a pointer move over a panel or the exit control,
\* or with coordinates outside the viewport, the tooltip is not visible;
\* after a pointer move inside the viewport over another element with a
\* resolvable font the tooltip is visible and shows the standardized name
C26_TooltipFollowsPointer ==
    (isActive /\ lastOp.op = "mousemove") =>
       /\ (lastOp.element = "overlay" \/ ~lastOp.inViewport) => ~tooltip.visible
       /\ ( /\ lastOp.element \in Elements
            /\ lastOp.inViewport
            /\ Resolvable(NodeOf(lastOp.element)) ) =>
              /\ tooltip.visible
              /\ tooltip.content =
                    standardizeFontName(page.font[NodeOf(lastOp.element)])

\* the parts of the overlay's state a hover or click without metrics has to
\* leave alone
PanelsAndHighlights ==
    <<isActive, modals, trackedElements, topZIndex, style, trackAttr, modalAttr>>

\* C27: when the extractor returns null for the target, a pointer move ends
\* without an exception and with the tooltip hidden, a click creates no
\* panel, and panels, highlights and the z-index counter are unchanged
C27_NullMetricsDegrade ==
    [][ ( /\ isActive
          /\ lastOp'.op \in {"mousemove", "open"}
          /\ lastOp'.element \in Elements
          /\ lastOp'.inViewport
          /\ MetricsFor(lastOp'.element).metrics = NoMetrics ) =>
          /\ lastOp'.op = "mousemove" => (~threw' /\ ~tooltip'.visible)
          /\ lastOp'.op = "open" => tooltip' = tooltip
          /\ PanelsAndHighlights' = PanelsAndHighlights ]_vars

----------------------------------------------------------------------------
(* Mutation observer: properties *)

\* n is root or a descendant of root
Under(n, root) ==
    \/ n = root
    \/ NodeParent(n) = root
    \/ NodeParent(NodeParent(n)) = root

\* C28: the delivery of a batch of mutation records runs analyzeHierarchy
\* on the nodes listed as added in childList records and on nothing else:
\* every hierarchy node made is a new root for an added node or lies under
\* one, a batch without added nodes leaves the analyzer as it was, the
\* hierarchy nodes there before are kept as they were, and each counter
\* grows by the number of nodes made for its font
C28_OnlyAddedNodesAnalysed ==
    [][ lastOp'.op = "mutations" =>
          LET added == ListedAdded(observer.queue)
              h == analyzer.hierarchy
              h2 == analyzer'.hierarchy
              new == (Len(h) + 1)..Len(h2)
              names == {analyzer'.fontUsageStats[i].name :
                           i \in 1..Len(analyzer'.fontUsageStats)}
          IN  /\ Len(h2) >= Len(h)
              /\ SubSeq(h2, 1, Len(h)) = h
              /\ \A i \in new : \E a \in added : Under(h2[i].element, a)
              /\ \A a \in added :
                    \E i \in new : h2[i].element = a /\ h2[i].parent = 0
              /\ \A f \in names :
                    CountOf(analyzer'.fontUsageStats, f) =
                       CountOf(analyzer.fontUsageStats, f)
                       + Cardinality({i \in new : h2[i].fontMetrics.name = f})
              /\ \A i \in 1..Len(analyzer.fontUsageStats) :
                    analyzer.fontUsageStats[i].name \in names
              /\ added = {} => analyzer' = analyzer ]_vars

\* after a headless pass, a batch with the insertion of n4 and a record
\* that adds no node was delivered: n4 is a new root behind the earlier nodes
C28_Witness ==
    /\ lastOp.op = "mutations"
    /\ observer.delivered.added = {"n4"}
    /\ observer.delivered.records = 2
    /\ Len(analyzer.hierarchy) >= 4
    /\ analyzer.hierarchy[1].element = "n1"
    /\ analyzer.hierarchy[Len(analyzer.hierarchy)].element = "n4"
    /\ analyzer.hierarchy[Len(analyzer.hierarchy)].parent = 0

----------------------------------------------------------------------------
(* Highlight button guard: properties *)

\* the clicks on a highlight button
ToggleClicks == {"highlightOn", "highlightOff", "toggleIgnored"}

\* C29: a click on a panel's highlight button is ignored exactly when the
\* button's guard is set, and then changes no flag and no style; an
\* accepted click flips the panel's highlight once and sets the guard; and
\* a guard that is set is released in the end, also when the toggle threw
C29_GuardedToggle ==
    /\ [][ lastOp'.op \in ToggleClicks =>
             LET m == lastOp'.modal
             IN  /\ lastOp'.op = "toggleIgnored" <=> m \in highlightButton.isProcessing
                 /\ lastOp'.op = "toggleIgnored" =>
                       /\ modals' = modals
                       /\ style' = style
                       /\ trackedElements' = trackedElements
                       /\ highlightButton'.isProcessing = highlightButton.isProcessing
                 /\ lastOp'.op # "toggleIgnored" =>
                       /\ modals'[m].isHighlighted = ~modals[m].isHighlighted
                       /\ modals'[m].isHighlighted = (lastOp'.op = "highlightOn")
                       /\ Highlighted(style', modals[m].targetElement)
                             = modals'[m].isHighlighted
                       /\ m \in highlightButton'.isProcessing ]_vars
    /\ \A m \in ModalIds :
          (m \in highlightButton.isProcessing) ~> (m \notin highlightButton.isProcessing)

\* an accepted click that turned the highlight off again and threw: the
\* guard of the click that turned it on was released before
C29_Witness ==
    /\ lastOp.op = "highlightOff"
    /\ lastOp.modal \in DOMAIN modals
    /\ ~modals[lastOp.modal].isHighlighted
    /\ lastOp.modal \in highlightButton.isProcessing
    /\ highlightButton.threw

----------------------------------------------------------------------------
(* Initial panel position: properties *)

\* C30: for a click inside the viewport the position open computes has its
\* viewport-relative left and top at least at the padding, also when the
\* panel is larger than the viewport; when the viewport holds the panel and
\* twice the padding, the right and bottom edges are at most at viewport
\* size minus padding; and the position is flipped to the left or top only
\* when the default position overflows and that side has more space
C30_ClampedToPadding ==
    layout.opened =>
       LET left == layout.position.x - layout.scrollX
           top == layout.position.y - layout.scrollY
       IN  /\ left >= padding
           /\ top >= padding
           /\ layout.viewportWidth >= modalWidth + 2 * padding =>
                  left + modalWidth <= layout.viewportWidth - padding
           /\ layout.viewportHeight >= modalHeight + 2 * padding =>
                  top + modalHeight <= layout.viewportHeight - padding
           /\ layout.position.flippedX =>
                  /\ layout.clientX + tooltipOffset + modalWidth
                        > layout.viewportWidth - padding
                  /\ layout.clientX > layout.viewportWidth - layout.clientX
           /\ layout.position.flippedY =>
                  /\ layout.clientY + tooltipOffset + modalHeight
                        > layout.viewportHeight - padding
                  /\ layout.clientY > layout.viewportHeight - layout.clientY

----------------------------------------------------------------------------
(* Font names: properties *)

\* nothing is left of the name once quotes, characters outside ASCII and
\* the white space around the rest are removed
EmptyAfterCleaning(name) ==
    \A i \in 1..Len(name) : name[i].kind # "word"

\* the name is one generic family keyword, in any case, quoted or padded
IsGenericFamily(name) ==
    \E i \in 1..Len(name) :
        /\ name[i].kind = "word"
        /\ name[i].stem \in {"serif", "sans-serif", "monospace"}
        /\ \A j \in 1..Len(name) : j # i => name[j].kind # "word"

IsWord(c) == c.kind = "word"

\* the letters of a name, whatever their case
StemsOf(name) ==
    LET words == SelectSeq(name, IsWord)
    IN  [i \in 1..Len(words) |-> words[i].stem]

\* words with a capital first letter and small letters after it, one blank
\* between two words and none around them
SingleSpacedTitleCase(name) ==
    /\ name # <<>>
    /\ name[1] # Blank
    /\ name[Len(name)] # Blank
    /\ \A i \in 1..Len(name) :
           /\ name[i] = Blank \/ name[i].kind = "word"
           /\ name[i] = Blank /\ i < Len(name) => name[i + 1] # Blank
           /\ name[i].kind = "word" =>
                  name[i].form = (IF i = 1 \/ name[i - 1] = Blank
                                  THEN "title" ELSE "lower")

\* C31: standardizeFontName never returns the empty string; a name that is
\* empty, or empty once quotes, characters outside ASCII and the white
\* space around it are removed, gives "System Default"; any other name that
\* is not a generic family comes back with its words title-cased and
\* single blanks between them; and the function returns its own output
\* unchanged.
C31_StandardizedName ==
    naming.standardized =>
        /\ naming.result # <<>>
        /\ EmptyAfterCleaning(naming.fontName) =>
               naming.result = SystemDefault
        /\ ~EmptyAfterCleaning(naming.fontName)
             /\ ~IsGenericFamily(naming.fontName) =>
               /\ SingleSpacedTitleCase(naming.result)
               /\ StemsOf(naming.result) = StemsOf(naming.fontName)
        /\ naming.again = naming.result

GenericKeywords == {"serif", "sans-serif", "monospace", "cursive", "fantasy"}

\* the letters of the name are those of a font of the allow-list
OnAllowList(name) ==
    \E f \in systemFonts : StemsOf(f) = StemsOf(name)

\* C32: getFontCategory gives each of the generic families serif,
\* sans-serif, monospace, cursive and fantasy its own name as category,
\* every font of the system allow-list the category system, and every
\* other font the category custom.
C32_FontCategory ==
    LET name == naming.fontName
    IN  naming.category # "none" =>
            /\ \A g \in GenericKeywords :
                   name = <<Lower(g)>> => naming.category = g
            /\ name \in systemFonts
                 /\ name \notin {<<Title("serif")>>, <<Title("sans-serif")>>}
                   => naming.category = "system"
            /\ ~OnAllowList(name) /\ ~EmptyAfterCleaning(name)
                 /\ (\A g \in GenericKeywords : StemsOf(name) # <<g>>)
                   => naming.category = "custom"

----------------------------------------------------------------------------
(* Track attribute against tracked-elements map: properties *)

\* the attribute of e names a map entry, and that entry is the one of e
Agree(e) ==
    /\ trackAttr[e] \in DOMAIN trackedElements
    /\ trackedElements[trackAttr[e]].element = e

\* the map entries of element e
TrackedAs(e) ==
    {t \in DOMAIN trackedElements : trackedElements[t].element = e}

\* attribute without a map entry, or a map entry of an element whose
\* attribute does not name it
Disagree(e) ==
    \/ trackAttr[e] # NoId /\ trackAttr[e] \notin DOMAIN trackedElements
    \/ \E t \in TrackedAs(e) : trackAttr[e] # t

----------------------------------------------------------------------------
(* Panel flags against element highlights: properties *)

\* C34: a panel whose isHighlighted flag is true has a target element that
\* is tracked and shows the highlight appearance; with two panels on one
\* element, no sequence of toggles and closes leaves one panel flagged while
\* the element was un-highlighted through the other.
C34_FlaggedMeansHighlighted ==
    \A m \in DOMAIN modals :
        modals[m].isHighlighted =>
            /\ EntriesOf(trackedElements, modals[m].targetElement) # {}
            /\ Highlighted(style, modals[m].targetElement)

\* C35: closing a panel whose isHighlighted flag is false leaves the
\* tracked-elements map and the style and track attribute of every page
\* element unchanged, also when its target is highlighted through another
\* panel; closing any panel leaves the entries of all other panels unchanged.
C35_CloseOfUnflaggedPanel ==
    [][lastOp'.op = "close" =>
          /\ OthersUnchanged(lastOp'.modal)
          /\ ~modals[lastOp'.modal].isHighlighted =>
                /\ trackedElements' = trackedElements
                /\ style' = style
                /\ trackAttr' = trackAttr]_vars

----------------------------------------------------------------------------
(* Writes to page elements: properties *)

\* C36: on page elements the overlay writes the inline outline, the inline
\* background-color and the track-identifier attribute and nothing else: no
\* click, bring-to-front or close changes another style property (such as
\* z-index) or another attribute, also not a click on an element that
\* already has an open panel.
C36_OnlyOutlineBackgroundTrackId ==
    [][lastOp'.op \in {"open", "bringToFront", "close", "highlightOn",
                       "highlightOff", "activate", "deactivate"} =>
          /\ inlineZIndex' = inlineZIndex
          /\ modalAttr' = modalAttr]_vars

----------------------------------------------------------------------------
(* Mutation records and repeated analysis: properties *)

\* the elements that were analysed with font f since the last reset
ElementsIn(f) ==
    {n \in Nodes : \E i \in NodesOf(analyzer.hierarchy, n) :
                       analyzer.hierarchy[i].fontMetrics.name = f}

\* C37: between two resets every element contributes at most one to the
\* usage counters and at most one node to the hierarchy, whatever records
\* are delivered: an element added and then given children before the
\* callback runs, or reported in several records, is not counted twice.
C37_CountedOnce ==
    /\ \A n \in Nodes : Cardinality(NodesOf(analyzer.hierarchy, n)) <= 1
    /\ \A i \in 1..Len(analyzer.fontUsageStats) :
           analyzer.fontUsageStats[i].count
               <= Cardinality(ElementsIn(analyzer.fontUsageStats[i].name))

\* C38: during an active session a hover or click on an element reports
\* the metrics of the element's current style, also after its computed
\* font changed since an earlier extraction of the same element.
C38_MetricsOfCurrentStyle ==
    isActive =>
        /\ (lastOp.op = "mousemove" /\ lastOp.element \in Elements) =>
               /\ tooltip.visible
               /\ tooltip.content =
                      standardizeFontName(page.font[NodeOf(lastOp.element)])
        /\ (lastOp.op = "open" /\ lastOp.modal \in DOMAIN modals) =>
               modals[lastOp.modal].metrics.name =
                   standardizeFontName(page.font[NodeOf(lastOp.element)])

----------------------------------------------------------------------------
(* z-index counter and panels: properties *)

\* C39: in every active state the z-index counter is at least its base
\* value and at least the zIndex of every open panel, and two distinct
\* open panels have different zIndex values.
C39_CounterBoundsDistinctZ ==
    isActive =>
        /\ topZIndex >= baseZIndex
        /\ \A m \in DOMAIN modals : modals[m].zIndex <= topZIndex
        /\ \A m, o \in DOMAIN modals :
               m # o => modals[m].zIndex # modals[o].zIndex

\* C39 witness: two panels are open, the older one was brought to front
\* above the newer one, and the counter has moved past its base value.
C39_Witness ==
    /\ isActive
    /\ \E m, o \in DOMAIN modals : m < o /\ modals[m].zIndex > modals[o].zIndex
    /\ topZIndex > baseZIndex + 2

----------------------------------------------------------------------------
(* The overlay's own elements and the mutation observer: properties *)

\* the nodes of a delivered batch that the callback handed to
\* analyzeHierarchy: the added element nodes with innerText, and every
\* node of the model holds text (a detached element's innerText is its
\* textContent)
PassedToAnalyzer(delivered) == delivered.added

\* the delivery did not hand an element of the overlay to analyzeHierarchy
OwnNeverPassed ==
    lastOp'.op = "mutations" =>
        PassedToAnalyzer(observer'.delivered) \cap OwnNodes = {}

\* the delivery of a batch that lists only the overlay's elements as added
\* left the hierarchy and the usage counters as they were
OwnBatchChangesNothing ==
    (lastOp'.op = "mutations" /\ observer'.delivered.added \subseteq OwnNodes) =>
        /\ analyzer'.hierarchy = analyzer.hierarchy
        /\ analyzer'.fontUsageStats = analyzer.fontUsageStats

\* C40: the elements the overlay itself inserts into the page (panels,
\* instruction tooltip, measuring elements, container) are never passed to
\* analyzeHierarchy by the mutation observer, so that opening a panel or
\* activating the overlay changes neither the font usage counters nor the
\* hierarchy
C40_OwnElementsNotAnalysed ==
    [][OwnNeverPassed /\ OwnBatchChangesNothing]_vars

====
